---- MODULE Spec2Model ----
(***************************************************************************)
(* Cashback claim bot (src/bot.py): the claim wizard, the ticket store,    *)
(* the admission control and the moderation handlers, as a state machine.  *)
(* One action per aiogram handler; the handler order of the router and the *)
(* filters of each handler are the guards.                                 *)
(***************************************************************************)
EXTENDS Integers, Sequences, FiniteSets, TLC

VARIABLES
    users,      \* table users: sequence of tg ids, users.id is the index
    tickets,    \* table tickets (+ its attachments rows): sequence, tickets.id is the index
    messages,   \* table messages: sequence of rows, append only
    fsm,        \* FSM storage: per identity the state and the data dict
    today,      \* the calendar day datetime.now() returns
    tasks,      \* _finalize_submission coroutines suspended at an await (interleaved runs)
    out,        \* what the last handler sent through the transport and was delivered
    down        \* the fan-out recipients to whom a send raises at present

vars == <<users, tickets, messages, fsm, today, tasks, out, down>>

----------------------------------------------------------------------------
(* Bounds of the model: the caps the specifications put on the tables and drafts *)

MaxTickets == 2
MaxMessages == 2
MaxAtts == 1

----------------------------------------------------------------------------
(* Optional values: None is the empty sequence, a present value is <<v>> *)

None == <<>>
Some(v) == <<v>>
IsSome(o) == o # <<>>
Get(o) == o[1]

(* Texts are sequences of characters; a Cyrillic letter is written ru_x *)

Whitespace == {" "}

UpperToLower ==
    [c \in {"A", "B", "D", "E", "K", "N", "O"} |->
        CASE c = "A" -> "a" [] c = "B" -> "b" [] c = "D" -> "d" [] c = "E" -> "e"
          [] c = "K" -> "k" [] c = "N" -> "n" [] c = "O" -> "o"]

LowerChar(c) == IF c \in DOMAIN UpperToLower THEN UpperToLower[c] ELSE c

Lower(t) == [i \in 1..Len(t) |-> LowerChar(t[i])]

RECURSIVE LStrip(_)
LStrip(t) == IF t # <<>> /\ Head(t) \in Whitespace THEN LStrip(Tail(t)) ELSE t

RECURSIVE RStrip(_)
RStrip(t) ==
    IF t # <<>> /\ t[Len(t)] \in Whitespace THEN RStrip(SubSeq(t, 1, Len(t) - 1)) ELSE t

Strip(t) == RStrip(LStrip(t))

TxtDone == <<"d", "o", "n", "e">>
TxtOk == <<"o", "k">>
TxtGotovo == <<"ru_g", "ru_o", "ru_t", "ru_o", "ru_v", "ru_o">>
TxtOkRu == <<"ru_o", "ru_k">>
TxtConfirm ==
    <<"ru_p", "ru_o", "ru_d", "ru_t", "ru_v", "ru_e", "ru_r", "ru_zh", "ru_d", "ru_a", "ru_yu">>

DoneWords == {TxtGotovo, TxtDone, TxtOkRu, TxtOk}

CmdStart == <<"/", "s", "t", "a", "r", "t">>
CmdCashback == <<"/", "c", "a", "s", "h", "b", "a", "c", "k">>

IsPrefix(p, t) == Len(p) <= Len(t) /\ SubSeq(t, 1, Len(p)) = p

\* aiogram Command filter: the text starts with the command, alone or followed by blank
IsCommand(m, cmd) ==
    /\ IsSome(m.text)
    /\ IsPrefix(cmd, Get(m.text))
    /\ IF Len(Get(m.text)) = Len(cmd) THEN TRUE
       ELSE Get(m.text)[Len(cmd) + 1] \in Whitespace

IsMedia(m) == m.content_type \in {"PHOTO", "DOCUMENT"}

----------------------------------------------------------------------------
(* Configuration *)

ADMINS == {"a1"}
ADMIN_GROUP_ID == Some("grp")
Claimants == {"u1", "u2"}
Ids == Claimants \cup ADMINS

DEFAULT_CASINOS_CONFIG ==
    << [code |-> "shuffle", type |-> "nick", regex |-> FALSE, enabled |-> TRUE],
       [code |-> "vodka", type |-> "nick", regex |-> FALSE, enabled |-> TRUE],
       [code |-> "beef", type |-> "email", regex |-> TRUE, enabled |-> TRUE] >>

CASINOS_BY_CODE ==
    {DEFAULT_CASINOS_CONFIG[i].code :
        i \in {j \in 1..Len(DEFAULT_CASINOS_CONFIG) : DEFAULT_CASINOS_CONFIG[j].enabled}}

CasinoEntry(code) ==
    CHOOSE c \in {DEFAULT_CASINOS_CONFIG[i] : i \in 1..Len(DEFAULT_CASINOS_CONFIG)} :
        c.code = code

\* casino_id_field(code).get("type"): the default field is a nick
casino_id_type(ocode) ==
    IF IsSome(ocode) /\ Get(ocode) \in CASINOS_BY_CODE
    THEN CasinoEntry(Get(ocode)).type
    ELSE "nick"

\* a test that would take every identity for an operator
is_admin_anyone(u) == u \in Ids

is_admin(u) == u \in ADMINS

MAX_ACTIVE_TICKETS == 3
ACTIVE_STATUSES == {"new", "needs_info"}

----------------------------------------------------------------------------
(* validate_id_value *)

\* re.match(r"^[^@\s]+@[^@\s]+\.[^@\s]+$", value): one "@", not first, and a "."
\* after it with at least one character on each side of the dot
EmailRegexMatch(t) ==
    \E i \in 2..Len(t) : \E j \in (i + 2)..(Len(t) - 1) :
        /\ t[i] = "@"
        /\ t[j] = "."
        /\ \A k \in 1..Len(t) : k # i => t[k] \notin ({"@"} \cup Whitespace)

\* validate_id_value with the nickname test len(value) < 1
validate_id_value_one_char(ocode, value) ==
    IF casino_id_type(ocode) = "email"
    THEN ~EmailRegexMatch(Strip(value))
    ELSE Len(Strip(value)) < 1

\* TRUE when validate_id_value returns an error text
validate_id_value(ocode, value) ==
    IF casino_id_type(ocode) = "email"
    THEN ~EmailRegexMatch(Strip(value))
    ELSE Len(Strip(value)) < 2

----------------------------------------------------------------------------
(* DB layer *)

DigitChars == <<"0", "1", "2", "3", "4", "5", "6", "7", "8", "9">>

RECURSIVE Decimal(_)
Decimal(n) ==
    IF n < 10 THEN <<DigitChars[n + 1]>>
    ELSE Decimal(n \div 10) \o <<DigitChars[(n % 10) + 1]>>

\* f"{n:04d}"
Format04(n) ==
    LET d == Decimal(n)
    IN  IF Len(d) >= 4 THEN d ELSE [i \in 1..(4 - Len(d)) |-> "0"] \o d

\* datetime.now().strftime("%Y%m%d") on day number d
DayStamp(d) == <<"2", "0", "2", "5", "0", "1", "0">> \o <<DigitChars[d + 1]>>

\* substr(code,5,8)
CodeDay(code) == SubSeq(code, 5, 12)

CodeSeq(code) == SubSeq(code, 14, Len(code))

\* gen_ticket_code without the day filter of the COUNT
gen_ticket_code_all_days ==
    <<"T", "C", "K", "-">> \o DayStamp(today) \o <<"-">> \o Format04(Len(tickets) + 1)

gen_ticket_code ==
    LET stamp == DayStamp(today)
        cnt == Cardinality({i \in 1..Len(tickets) : CodeDay(tickets[i].code) = stamp})
    IN  <<"T", "C", "K", "-">> \o stamp \o <<"-">> \o Format04(cnt + 1)

\* SELECT id FROM users WHERE tg_id=?   (0 when there is no row)
UserRow(tg) ==
    IF \E i \in 1..Len(users) : users[i] = tg
    THEN CHOOSE i \in 1..Len(users) : users[i] = tg
    ELSE 0

get_or_create_user(tg) == IF UserRow(tg) # 0 THEN users ELSE Append(users, tg)

\* the row create_ticket inserts for payload data under code
TicketRow(tg, data, code) ==
    [ code |-> code,
      user_id |-> UserRow(tg),
      email |-> IF data.id_type = "email" THEN data.id_value ELSE None,
      project_nick |-> IF data.id_type = "nick" THEN data.id_value ELSE None,
      casino_code |-> data.casino_code,
      status |-> "new",
      created_at |-> today,
      atts |-> data.attachments ]

\* find_ticket_by_code / ticket_id_from_code: the row id, 0 when the code is unknown
\* a lookup that would fall back to the newest ticket when the code is unknown
ticket_id_from_code_or_newest(code) ==
    IF \E i \in 1..Len(tickets) : tickets[i].code = code
    THEN CHOOSE i \in 1..Len(tickets) : tickets[i].code = code
    ELSE Len(tickets)

ticket_id_from_code(code) ==
    IF \E i \in 1..Len(tickets) : tickets[i].code = code
    THEN CHOOSE i \in 1..Len(tickets) : tickets[i].code = code
    ELSE 0

\* UPDATE tickets SET status=? WHERE code=?
\* an update that would only move a ticket out of status new
update_ticket_status_from_new(code, new_status) ==
    [i \in 1..Len(tickets) |->
        IF tickets[i].code = code /\ tickets[i].status = "new"
        THEN [tickets[i] EXCEPT !.status = new_status] ELSE tickets[i]]

\* an update that would leave a ticket in approved or rejected as it is
update_ticket_status_terminal(code, new_status) ==
    [i \in 1..Len(tickets) |->
        IF tickets[i].code = code /\ tickets[i].status \notin {"approved", "rejected"}
        THEN [tickets[i] EXCEPT !.status = new_status] ELSE tickets[i]]

update_ticket_status(code, new_status) ==
    [i \in 1..Len(tickets) |->
        IF tickets[i].code = code THEN [tickets[i] EXCEPT !.status = new_status]
        ELSE tickets[i]]

\* a log that would not take the same entry twice in a row
add_message_no_repeat(ticket_id, sender, text, file_id) ==
    LET e == [ticket_id |-> ticket_id, sender |-> sender, text |-> text, file_id |-> file_id]
    IN  IF messages # <<>> /\ messages[Len(messages)] = e THEN messages
        ELSE Append(messages, e)

add_message(ticket_id, sender, text, file_id) ==
    Append(messages,
           [ticket_id |-> ticket_id, sender |-> sender, text |-> text, file_id |-> file_id])

\* tickets of tg (JOIN users ON users.id = tickets.user_id) whose status is in sts
UserTicketIds(tg, sts) ==
    {i \in 1..Len(tickets) :
        /\ tickets[i].user_id \in 1..Len(users)
        /\ users[tickets[i].user_id] = tg
        /\ tickets[i].status \in sts}

count_active_tickets(tg) == Cardinality(UserTicketIds(tg, ACTIVE_STATUSES))

RECURSIVE DescBy(_)
\* ORDER BY t.id DESC
DescBy(S) ==
    IF S = {} THEN <<>>
    ELSE LET m == CHOOSE x \in S : \A y \in S : y <= x
         IN  <<m>> \o DescBy(S \ {m})

\* list_active_user_tickets with ORDER BY t.id ASC
list_active_user_tickets_asc(tg) ==
    LET ids == DescBy(UserTicketIds(tg, ACTIVE_STATUSES))
    IN  [k \in 1..Len(ids) |->
            <<tickets[ids[Len(ids) + 1 - k]].code, tickets[ids[Len(ids) + 1 - k]].status>>]

list_active_user_tickets(tg) ==
    LET ids == DescBy(UserTicketIds(tg, ACTIVE_STATUSES))
    IN  [k \in 1..Len(ids) |-> <<tickets[ids[k]].code, tickets[ids[k]].status>>]

\* catch_user_messages' query: the latest ticket of tg with status needs_info, 0 if none
LatestNeedsInfo(tg) ==
    LET S == UserTicketIds(tg, {"needs_info"})
    IN  IF S = {} THEN 0 ELSE CHOOSE x \in S : \A y \in S : y <= x

----------------------------------------------------------------------------
(* FSM storage: one context per (chat, user) key, as aiogram keys it *)

GroupChat == "grp"
Chats == Ids \cup {GroupChat}
Keys == {<<u, u>> : u \in Ids} \cup {<<GroupChat, u>> : u \in Ids \cup {GroupChat}}

\* the context after state.clear(): no state, empty data
EmptyContext ==
    [ state |-> "None", casino_code |-> None, project_nick |-> None,
      dep_atts |-> <<>>, wd_atts |-> <<>>, ticket_code |-> None ]

Ctx(c, u) == fsm[<<c, u>>]

SetState(c, u, st) == [fsm EXCEPT ![<<c, u>>].state = st]

\* a clear() that would reset the state and keep the data
Clear_state_only(c, u) == [fsm EXCEPT ![<<c, u>>].state = "None"]

Clear(c, u) == [fsm EXCEPT ![<<c, u>>] = EmptyContext]

Send(to, body) == [to |-> to, body |-> body]

\* notify_admins: one send per operator, then the broadcast channel
RECURSIVE SeqOfSet(_)
SeqOfSet(S) ==
    IF S = {} THEN <<>>
    ELSE LET x == CHOOSE y \in S : TRUE IN <<x>> \o SeqOfSet(S \ {x})

\* the recipients of a fan-out in the order of the sends: for admin_id in ADMINS, then
\* ADMIN_GROUP_ID if set
Recipients ==
    SeqOfSet(ADMINS) \o (IF IsSome(ADMIN_GROUP_ID) THEN <<Get(ADMIN_GROUP_ID)>> ELSE <<>>)

\* try: send(r, body) / except Exception: pass, for each r of rcpts in turn
RECURSIVE TrySendEach(_, _)
TrySendEach(rcpts, body) ==
    IF rcpts = <<>> THEN <<>>
    ELSE (IF Head(rcpts) \in down THEN <<>> ELSE <<Send(Head(rcpts), body)>>)
         \o TrySendEach(Tail(rcpts), body)

\* the sends without the try: the first one that raises ends the fan-out
RECURSIVE SendEach(_, _)
SendEach(rcpts, body) ==
    IF rcpts = <<>> \/ Head(rcpts) \in down THEN <<>>
    ELSE <<Send(Head(rcpts), body)>> \o SendEach(Tail(rcpts), body)

\* a notify_admins without the try around each send
notify_admins_unguarded(body) == SendEach(Recipients, body)

notify_admins(body) == TrySendEach(Recipients, body)

\* the text message handlers registered before the one in question, by state filter
WizardMsgStates == {"project_nick", "dep_attachments", "wd_attachments", "confirm"}

----------------------------------------------------------------------------
(* Claimant handlers *)

\* the list of active tickets is answered with a closing hint by cb_new_ticket and
\* cmd_cashback ("retry_hint"), and without it by _finalize_submission
\* the anti-spam test of cb_new_ticket, cmd_cashback and _finalize_submission
QuotaReached(cnt) == cnt >= MAX_ACTIVE_TICKETS

cmd_start(c, u, m) ==
    /\ IsCommand(m, CmdStart)
    /\ users' = get_or_create_user(u)
    /\ out' = <<>>
    /\ UNCHANGED <<tickets, messages, fsm, today, tasks, down>>

cb_new_ticket(c, u) ==
    /\ IF QuotaReached(count_active_tickets(u))
       THEN /\ out' = <<Send(c, <<"active_list", list_active_user_tickets(u), "retry_hint">>)>>
            /\ UNCHANGED fsm
       ELSE /\ fsm' = SetState(c, u, "casino")
            /\ out' = <<>>
    /\ UNCHANGED <<users, tickets, messages, today, tasks, down>>

back_home(c, u) ==
    /\ fsm' = Clear(c, u)
    /\ out' = <<>>
    /\ UNCHANGED <<users, tickets, messages, today, tasks, down>>

back_to_casino(c, u) ==
    /\ fsm' = SetState(c, u, "casino")
    /\ out' = <<>>
    /\ UNCHANGED <<users, tickets, messages, today, tasks, down>>

casino_selected(c, u, code) ==
    /\ IF code \notin CASINOS_BY_CODE
       THEN UNCHANGED fsm
       ELSE fsm' = [fsm EXCEPT ![<<c, u>>].casino_code = Some(code),
                               ![<<c, u>>].state = "project_nick"]
    /\ out' = <<>>
    /\ UNCHANGED <<users, tickets, messages, today, tasks, down>>

form_id_input(c, u, m) ==
    /\ ~IsCommand(m, CmdStart)
    /\ Ctx(c, u).state = "project_nick"
    /\ LET ccode == Ctx(c, u).casino_code
           id_value == IF IsSome(m.text) THEN Strip(Get(m.text)) ELSE <<>>
       IN  IF ~IsSome(ccode)
           THEN fsm' = SetState(c, u, "casino")
           ELSE IF id_value = <<>> \/ validate_id_value(ccode, id_value)
           THEN UNCHANGED fsm
           ELSE fsm' = [fsm EXCEPT ![<<c, u>>].project_nick = Some(id_value),
                                   ![<<c, u>>].state = "dep_attachments"]
    /\ out' = <<>>
    /\ UNCHANGED <<users, tickets, messages, today, tasks, down>>

MediaKind(prefix, m) ==
    IF m.content_type = "PHOTO" THEN <<prefix, "photo">> ELSE <<prefix, "doc">>

dep_attach_media(c, u, m) ==
    /\ ~IsCommand(m, CmdStart)
    /\ Ctx(c, u).state = "dep_attachments"
    /\ IsMedia(m)
    /\ fsm' = [fsm EXCEPT ![<<c, u>>].dep_atts =
                  Append(@, [kind |-> MediaKind("deposit", m), file_id |-> Get(m.file_id)])]
    /\ out' = <<>>
    /\ UNCHANGED <<users, tickets, messages, today, tasks, down>>

IsDoneText(m) == IsSome(m.text) /\ Lower(Strip(Get(m.text))) \in DoneWords

_go_to_withdraw_stage(c, u) == SetState(c, u, "wd_attachments")

dep_attach_done_text(c, u, m) ==
    /\ ~IsCommand(m, CmdStart)
    /\ Ctx(c, u).state = "dep_attachments"
    /\ ~IsMedia(m)
    /\ IF IsDoneText(m) /\ Len(Ctx(c, u).dep_atts) # 0
       THEN fsm' = _go_to_withdraw_stage(c, u)
       ELSE UNCHANGED fsm
    /\ out' = <<>>
    /\ UNCHANGED <<users, tickets, messages, today, tasks, down>>

back_to_id(c, u) ==
    /\ fsm' = SetState(c, u, "project_nick")
    /\ out' = <<>>
    /\ UNCHANGED <<users, tickets, messages, today, tasks, down>>

dep_done_btn(c, u) ==
    /\ IF Len(Ctx(c, u).dep_atts) = 0
       THEN UNCHANGED fsm
       ELSE fsm' = _go_to_withdraw_stage(c, u)
    /\ out' = <<>>
    /\ UNCHANGED <<users, tickets, messages, today, tasks, down>>

wd_attach_media(c, u, m) ==
    /\ ~IsCommand(m, CmdStart)
    /\ Ctx(c, u).state = "wd_attachments"
    /\ IsMedia(m)
    /\ fsm' = [fsm EXCEPT ![<<c, u>>].wd_atts =
                  Append(@, [kind |-> MediaKind("withdraw", m), file_id |-> Get(m.file_id)])]
    /\ out' = <<>>
    /\ UNCHANGED <<users, tickets, messages, today, tasks, down>>

\* dp.fsm.get_context(user_id=chat.id, chat_id=chat.id).set_state(confirm): the
\* context is looked up by the chat alone
_show_summary_and_confirm(c) == SetState(c, c, "confirm")

wd_attach_done_text(c, u, m) ==
    /\ ~IsCommand(m, CmdStart)
    /\ Ctx(c, u).state = "wd_attachments"
    /\ ~IsMedia(m)
    /\ IF IsDoneText(m) /\ Len(Ctx(c, u).wd_atts) # 0
       THEN fsm' = _show_summary_and_confirm(c)
       ELSE UNCHANGED fsm
    /\ out' = <<>>
    /\ UNCHANGED <<users, tickets, messages, today, tasks, down>>

back_to_dep(c, u) ==
    /\ fsm' = SetState(c, u, "dep_attachments")
    /\ out' = <<>>
    /\ UNCHANGED <<users, tickets, messages, today, tasks, down>>

\* wd_done_btn without the test of wd_atts
wd_done_btn_ungated(c, u) ==
    /\ fsm' = _show_summary_and_confirm(c)
    /\ out' = <<>>
    /\ UNCHANGED <<users, tickets, messages, today, tasks, down>>

wd_done_btn(c, u) ==
    /\ IF Len(Ctx(c, u).wd_atts) = 0
       THEN UNCHANGED fsm
       ELSE fsm' = _show_summary_and_confirm(c)
    /\ out' = <<>>
    /\ UNCHANGED <<users, tickets, messages, today, tasks, down>>

\* a cancel that would leave the wizard step and keep the draft
cancel_flow_keeps_draft(c, u) ==
    /\ fsm' = SetState(c, u, "None")
    /\ out' = <<Send(c, <<"cancelled">>)>>
    /\ UNCHANGED <<users, tickets, messages, today, tasks, down>>

cancel_flow(c, u) ==
    /\ fsm' = Clear(c, u)
    /\ out' = <<Send(c, <<"cancelled">>)>>
    /\ UNCHANGED <<users, tickets, messages, today, tasks, down>>

back_to_wd(c, u) ==
    /\ fsm' = SetState(c, u, "wd_attachments")
    /\ out' = <<>>
    /\ UNCHANGED <<users, tickets, messages, today, tasks, down>>

----------------------------------------------------------------------------
(* Finalization, run to completion *)

\* the payload with the withdrawals put before the deposits
Payload_wd_first(c, u) ==
    [ casino_code |-> Ctx(c, u).casino_code,
      id_type |-> casino_id_type(Ctx(c, u).casino_code),
      id_value |-> Ctx(c, u).project_nick,
      attachments |-> Ctx(c, u).wd_atts \o Ctx(c, u).dep_atts ]

\* the payload _finalize_submission builds from the draft of context (c, u)
Payload(c, u) ==
    [ casino_code |-> Ctx(c, u).casino_code,
      id_type |-> casino_id_type(Ctx(c, u).casino_code),
      id_value |-> Ctx(c, u).project_nick,
      attachments |-> Ctx(c, u).dep_atts \o Ctx(c, u).wd_atts ]

\* bot.send_message(chat_id, ...) of _finalize_submission stands outside any try: when
\* it raises, the handler ends there
_finalize_submission(c, u) ==
    /\ IF QuotaReached(count_active_tickets(u))
       THEN IF c \in down
            THEN /\ out' = <<>>
                 /\ UNCHANGED <<fsm, tickets>>
            ELSE /\ out' = <<Send(c, <<"active_list", list_active_user_tickets(u)>>)>>
                 /\ fsm' = Clear(c, u)
                 /\ UNCHANGED tickets
       ELSE IF UserRow(u) = 0 \/ ticket_id_from_code(gen_ticket_code) # 0
       THEN \* create_ticket raises (no users row, or UNIQUE(code) fails): the handler stops
            /\ out' = <<>>
            /\ UNCHANGED <<fsm, tickets>>
       ELSE /\ tickets' = Append(tickets, TicketRow(u, Payload(c, u), gen_ticket_code))
            /\ fsm' = Clear(c, u)
            /\ out' = IF c \in down THEN <<>>
                      ELSE <<Send(c, <<"created", gen_ticket_code>>)>>
                               \o notify_admins(<<"new_ticket", gen_ticket_code>>)
    /\ UNCHANGED <<users, messages, today, tasks, down>>

IsConfirmText(m) == IsSome(m.text) /\ Lower(Strip(Get(m.text))) = TxtConfirm

form_confirm(c, u, m) ==
    /\ ~IsCommand(m, CmdStart)
    /\ Ctx(c, u).state = "confirm"
    /\ IF IsConfirmText(m)
       THEN _finalize_submission(c, u)
       ELSE /\ out' = <<>>
            /\ UNCHANGED <<users, tickets, messages, fsm, today, tasks, down>>

confirm_send(c, u) == _finalize_submission(c, u)

cmd_cashback(c, u, m) ==
    /\ IsCommand(m, CmdCashback)
    /\ Ctx(c, u).state \notin WizardMsgStates
    /\ users' = get_or_create_user(u)
    /\ IF QuotaReached(count_active_tickets(u))
       THEN /\ out' = <<Send(c, <<"active_list", list_active_user_tickets(u), "retry_hint">>)>>
            /\ UNCHANGED fsm
       ELSE /\ fsm' = SetState(c, u, "casino")
            /\ out' = <<>>
    /\ UNCHANGED <<tickets, messages, today, tasks, down>>

----------------------------------------------------------------------------
(* Finalization as interleaved coroutines: the handlers run as asyncio tasks, and *)
(* another task may run at each await of _finalize_submission and create_ticket.   *)
(* tasks holds the suspended runs: the chat and user, the payload built from the   *)
(* draft, the code once generated, and the await the run is suspended at.          *)

RemoveAt(seq, i) == SubSeq(seq, 1, i - 1) \o SubSeq(seq, i + 1, Len(seq))

\* confirm_send up to the call of create_ticket: the anti-spam re-check and the payload
finalize_check(c, u) ==
    /\ IF QuotaReached(count_active_tickets(u))
       THEN /\ out' = <<Send(c, <<"active_list", list_active_user_tickets(u)>>)>>
            /\ fsm' = Clear(c, u)
            /\ UNCHANGED tasks
       ELSE /\ tasks' = Append(tasks, [c |-> c, u |-> u, pc |-> "checked",
                                       payload |-> Payload(c, u), code |-> None])
            /\ out' = <<>>
            /\ UNCHANGED fsm
    /\ UNCHANGED <<users, tickets, messages, today, down>>

\* create_ticket up to the INSERT: the users row is read and the code is generated
create_ticket_gen(i) ==
    /\ tasks[i].pc = "checked"
    /\ IF UserRow(tasks[i].u) = 0
       THEN tasks' = RemoveAt(tasks, i)
       ELSE tasks' = [tasks EXCEPT ![i].pc = "coded", ![i].code = Some(gen_ticket_code)]
    /\ out' = <<>>
    /\ UNCHANGED <<users, tickets, messages, fsm, today, down>>

\* create_ticket from the INSERT to the commit; UNIQUE(code) fails the INSERT when a
\* ticket with the code was committed meanwhile, and the exception ends the handler
create_ticket_insert(i) ==
    /\ tasks[i].pc = "coded"
    /\ IF ticket_id_from_code(Get(tasks[i].code)) # 0
       THEN /\ tasks' = RemoveAt(tasks, i)
            /\ UNCHANGED tickets
       ELSE /\ tickets' = Append(tickets,
                                 TicketRow(tasks[i].u, tasks[i].payload, Get(tasks[i].code)))
            /\ tasks' = [tasks EXCEPT ![i].pc = "inserted"]
    /\ out' = <<>>
    /\ UNCHANGED <<users, messages, fsm, today, down>>

\* _finalize_submission after create_ticket returned: clear, answer, notify
finalize_finish(i) ==
    /\ tasks[i].pc = "inserted"
    /\ fsm' = Clear(tasks[i].c, tasks[i].u)
    /\ out' = IF tasks[i].c \in down THEN <<>>
              ELSE <<Send(tasks[i].c, <<"created", Get(tasks[i].code)>>)>>
                       \o notify_admins(<<"new_ticket", Get(tasks[i].code)>>)
    /\ tasks' = RemoveAt(tasks, i)
    /\ UNCHANGED <<users, tickets, messages, today, down>>

----------------------------------------------------------------------------
(* Operator handlers *)

CmdTicket == <<"/", "t", "i", "c", "k", "e", "t">>
CmdFiles == <<"/", "f", "i", "l", "e", "s">>
CmdTickets == <<"/", "t", "i", "c", "k", "e", "t", "s">>
CmdHelp == <<"/", "h", "e", "l", "p">>

\* a message a command handler takes before the state-filtered operator handlers
IsAnyCommand(m) ==
    \E cmd \in {CmdStart, CmdCashback, CmdTicket, CmdFiles, CmdTickets, CmdHelp} :
        IsCommand(m, cmd)

\* SELECT tg_id FROM users WHERE id = tickets.user_id
OwnerTg(ticket_id) == users[tickets[ticket_id].user_id]

ChunkSize == 10

\* chunked(seq, size)
chunked(seq, size) ==
    [k \in 1..((Len(seq) + size - 1) \div size) |->
        SubSeq(seq, (k - 1) * size + 1, IF k * size < Len(seq) THEN k * size ELSE Len(seq))]

\* a send_group that would caption the first item of every chunk
send_group_caption_each_chunk(chat, title, files) ==
    LET chunks == chunked(files, ChunkSize)
        caption(first) == IF first THEN Some(<<title, Len(files)>>) ELSE None
    IN  [idx \in 1..Len(chunks) |->
            IF Len(chunks[idx]) = 1
            THEN Send(chat, <<"single", chunks[idx][1].kind[2], chunks[idx][1].file_id,
                              caption(TRUE)>>)
            ELSE Send(chat, <<"media_group",
                              [j \in 1..Len(chunks[idx]) |->
                                  <<chunks[idx][j].kind[2], chunks[idx][j].file_id,
                                    caption(j = 1)>>]>>)]

\* send_group: one send per chunk, the caption on the first item of the first chunk
send_group(chat, title, files) ==
    LET chunks == chunked(files, ChunkSize)
        caption(first) == IF first THEN Some(<<title, Len(files)>>) ELSE None
    IN  [idx \in 1..Len(chunks) |->
            IF Len(chunks[idx]) = 1
            THEN Send(chat, <<"single", chunks[idx][1].kind[2], chunks[idx][1].file_id,
                              caption(idx = 1)>>)
            ELSE Send(chat, <<"media_group",
                              [j \in 1..Len(chunks[idx]) |->
                                  <<chunks[idx][j].kind[2], chunks[idx][j].file_id,
                                    caption(idx = 1 /\ j = 1)>>]>>)]

send_ticket_attachments(chat, code) ==
    LET tid == ticket_id_from_code(code)
        IsWd(a) == a.kind[1] = "withdraw"
        IsDep(a) == a.kind[1] # "withdraw"
    IN  IF tid = 0 THEN <<Send(chat, <<"not_found">>)>>
        ELSE IF tickets[tid].atts = <<>> THEN <<Send(chat, <<"no_attachments", code>>)>>
        ELSE send_group(chat, "deposits", SelectSeq(tickets[tid].atts, IsDep))
             \o send_group(chat, "withdrawals", SelectSeq(tickets[tid].atts, IsWd))

\* a press that would keep the ticket code of a sub-dialog already pending
OpenSubDialog_keep_pending(c, u, st, code) ==
    IF IsSome(Ctx(c, u).ticket_code)
    THEN [fsm EXCEPT ![<<c, u>>].state = st]
    ELSE [fsm EXCEPT ![<<c, u>>].state = st, ![<<c, u>>].ticket_code = Some(code)]

OpenSubDialog(c, u, st, code) ==
    [fsm EXCEPT ![<<c, u>>].state = st, ![<<c, u>>].ticket_code = Some(code)]

admin_actions(c, u, code, action) ==
    IF ~is_admin(u)
    THEN /\ out' = <<Send(u, <<"alert_admins_only">>)>>
         /\ UNCHANGED <<users, tickets, messages, fsm, today, tasks, down>>
    ELSE IF ticket_id_from_code(code) = 0
    THEN /\ out' = <<Send(u, <<"alert_not_found">>)>>
         /\ UNCHANGED <<users, tickets, messages, fsm, today, tasks, down>>
    ELSE
      LET tid == ticket_id_from_code(code) IN
      CASE action = "approve" ->
             /\ tickets' = update_ticket_status(code, "approved")
             /\ messages' = add_message(tid, "admin", Some(<<"approved">>), None)
             /\ out' = <<Send(OwnerTg(tid), <<"approved", code>>)>>
             /\ UNCHANGED <<users, fsm, today, tasks, down>>
        [] action = "reject" ->
             /\ fsm' = OpenSubDialog(c, u, "wait_reason", code)
             /\ out' = <<>>
             /\ UNCHANGED <<users, tickets, messages, today, tasks, down>>
        [] action = "needinfo" ->
             /\ tickets' = update_ticket_status(code, "needs_info")
             /\ fsm' = OpenSubDialog(c, u, "wait_text", code)
             /\ out' = <<>>
             /\ UNCHANGED <<users, messages, today, tasks, down>>
        [] action = "reply" ->
             /\ fsm' = OpenSubDialog(c, u, "wait_text", code)
             /\ out' = <<>>
             /\ UNCHANGED <<users, tickets, messages, today, tasks, down>>
        [] action = "files" ->
             /\ out' = send_ticket_attachments(u, code)
             /\ UNCHANGED <<users, tickets, messages, fsm, today, tasks, down>>
        [] OTHER ->
             /\ out' = <<>>
             /\ UNCHANGED <<users, tickets, messages, fsm, today, tasks, down>>

\* a delivery that would also move the ticket to needs_info
admin_send_text_sets_status(c, u, m, ok) ==
    /\ ~IsAnyCommand(m)
    /\ Ctx(c, u).state = "wait_text"
    /\ IF ~is_admin(u)
       THEN /\ out' = <<>>
            /\ UNCHANGED <<users, tickets, messages, fsm, today, tasks, down>>
       ELSE LET code == Ctx(c, u).ticket_code
                tid == IF IsSome(code) THEN ticket_id_from_code(Get(code)) ELSE 0
            IN  IF tid = 0
                THEN /\ fsm' = Clear(c, u)
                     /\ out' = <<>>
                     /\ UNCHANGED <<users, tickets, messages, today, tasks, down>>
                ELSE IF ok
                THEN /\ tickets' = update_ticket_status(Get(code), "needs_info")
                     /\ messages' = add_message(tid, "admin", m.text, None)
                     /\ out' = <<Send(OwnerTg(tid), <<"message", Get(code), m.text>>)>>
                     /\ fsm' = Clear(c, u)
                     /\ UNCHANGED <<users, today, tasks, down>>
                ELSE /\ fsm' = Clear(c, u)
                     /\ out' = <<>>
                     /\ UNCHANGED <<users, tickets, messages, today, tasks, down>>

\* ok: whether bot.send_message to the claimant succeeds
admin_send_text(c, u, m, ok) ==
    /\ ~IsAnyCommand(m)
    /\ Ctx(c, u).state = "wait_text"
    /\ IF ~is_admin(u)
       THEN /\ out' = <<>>
            /\ UNCHANGED <<users, tickets, messages, fsm, today, tasks, down>>
       ELSE LET code == Ctx(c, u).ticket_code
                tid == IF IsSome(code) THEN ticket_id_from_code(Get(code)) ELSE 0
            IN  IF tid = 0
                THEN /\ fsm' = Clear(c, u)
                     /\ out' = <<>>
                     /\ UNCHANGED <<users, tickets, messages, today, tasks, down>>
                ELSE IF ok
                THEN /\ messages' = add_message(tid, "admin", m.text, None)
                     /\ out' = <<Send(OwnerTg(tid), <<"message", Get(code), m.text>>)>>
                     /\ fsm' = Clear(c, u)
                     /\ UNCHANGED <<users, tickets, today, tasks, down>>
                ELSE /\ fsm' = Clear(c, u)
                     /\ out' = <<>>
                     /\ UNCHANGED <<users, tickets, messages, today, tasks, down>>

ReasonPlaceholder == <<"no_reason_given">>

\* a reason taken as sent, blank or not
RejectReason_as_sent(m) == IF IsSome(m.text) THEN Get(m.text) ELSE <<>>

\* (m.text or '').strip() or "Причина не указана"
RejectReason(m) ==
    LET t == IF IsSome(m.text) THEN Strip(Get(m.text)) ELSE <<>>
    IN  IF t = <<>> THEN ReasonPlaceholder ELSE t

\* admin_reject_with_reason with its send outside the try: a send that raises leaves the
\* handler before state.clear()
admin_reject_with_reason_unguarded(c, u, m) ==
    /\ ~IsAnyCommand(m)
    /\ Ctx(c, u).state = "wait_reason"
    /\ IF ~is_admin(u)
       THEN /\ out' = <<>>
            /\ UNCHANGED <<users, tickets, messages, fsm, today, tasks, down>>
       ELSE LET code == Ctx(c, u).ticket_code
                tid == IF IsSome(code) THEN ticket_id_from_code(Get(code)) ELSE 0
            IN  IF tid = 0
                THEN /\ fsm' = Clear(c, u)
                     /\ out' = <<>>
                     /\ UNCHANGED <<users, tickets, messages, today, tasks, down>>
                ELSE /\ tickets' = update_ticket_status(Get(code), "rejected")
                     /\ messages' = add_message(tid, "admin",
                                                Some(<<"rejected", RejectReason(m)>>), None)
                     /\ out' = TrySendEach(<<OwnerTg(tid)>>,
                                            <<"rejected", Get(code), RejectReason(m)>>)
                     /\ fsm' = IF OwnerTg(tid) \in down THEN fsm ELSE Clear(c, u)
                     /\ UNCHANGED <<users, today, tasks, down>>

admin_reject_with_reason(c, u, m) ==
    /\ ~IsAnyCommand(m)
    /\ Ctx(c, u).state = "wait_reason"
    /\ IF ~is_admin(u)
       THEN /\ out' = <<>>
            /\ UNCHANGED <<users, tickets, messages, fsm, today, tasks, down>>
       ELSE LET code == Ctx(c, u).ticket_code
                tid == IF IsSome(code) THEN ticket_id_from_code(Get(code)) ELSE 0
            IN  IF tid = 0
                THEN /\ fsm' = Clear(c, u)
                     /\ out' = <<>>
                     /\ UNCHANGED <<users, tickets, messages, today, tasks, down>>
                ELSE /\ tickets' = update_ticket_status(Get(code), "rejected")
                     /\ messages' = add_message(tid, "admin",
                                                Some(<<"rejected", RejectReason(m)>>), None)
                     /\ out' = TrySendEach(<<OwnerTg(tid)>>,
                                            <<"rejected", Get(code), RejectReason(m)>>)
                     /\ fsm' = Clear(c, u)
                     /\ UNCHANGED <<users, today, tasks, down>>

----------------------------------------------------------------------------
(* Operator commands *)

LowerToUpper ==
    [c \in {"a", "b", "c", "k", "l", "t"} |->
        CASE c = "a" -> "A" [] c = "b" -> "B" [] c = "c" -> "C"
          [] c = "k" -> "K" [] c = "l" -> "L" [] c = "t" -> "T"]

UpperChar(c) == IF c \in DOMAIN LowerToUpper THEN LowerToUpper[c] ELSE c

Upper(t) == [i \in 1..Len(t) |-> UpperChar(t[i])]

\* m.text.split(maxsplit=1): the rest of the text after the command word, <<>> if none
CommandRest(m, cmd) == Strip(SubSeq(Get(m.text), Len(cmd) + 1, Len(Get(m.text))))

\* the text message handlers with a state filter, all registered before the commands
\* /cashback, /ticket, /files, /tickets
CommandReaches(c, u) == Ctx(c, u).state \notin WizardMsgStates

cmd_ticket(c, u, m) ==
    /\ IsCommand(m, CmdTicket)
    /\ CommandReaches(c, u)
    /\ out' = IF ~is_admin(u) THEN <<>>
              ELSE IF CommandRest(m, CmdTicket) = <<>> THEN <<Send(c, <<"usage_ticket">>)>>
              ELSE LET code == Upper(CommandRest(m, CmdTicket))
                       tid == ticket_id_from_code(code)
                   IN  IF tid = 0 THEN <<Send(c, <<"not_found">>)>>
                       ELSE <<Send(c, <<"ticket_card", code, tickets[tid].status>>)>>
    /\ UNCHANGED <<users, tickets, messages, fsm, today, tasks, down>>

cmd_files(c, u, m) ==
    /\ IsCommand(m, CmdFiles)
    /\ CommandReaches(c, u)
    /\ out' = IF ~is_admin(u) THEN <<>>
              ELSE IF CommandRest(m, CmdFiles) = <<>> THEN <<Send(c, <<"usage_files">>)>>
              ELSE send_ticket_attachments(c, Upper(CommandRest(m, CmdFiles)))
    /\ UNCHANGED <<users, tickets, messages, fsm, today, tasks, down>>

ListLimit == 10

\* /tickets without an argument: the tickets in new / needs_info, newest first,
\* at most ListLimit of them
cmd_tickets(c, u, m) ==
    /\ IsCommand(m, CmdTickets)
    /\ CommandRest(m, CmdTickets) = <<>>
    /\ CommandReaches(c, u)
    /\ out' = IF ~is_admin(u) THEN <<>>
              ELSE LET ids == DescBy({i \in 1..Len(tickets) :
                                         tickets[i].status \in {"new", "needs_info"}})
                       n == IF Len(ids) < ListLimit THEN Len(ids) ELSE ListLimit
                   IN  IF n = 0 THEN <<Send(c, <<"no_pending">>)>>
                       ELSE <<Send(c, <<"ticket_list",
                                        [k \in 1..n |-> <<tickets[ids[k]].code,
                                                          tickets[ids[k]].status>>]>>)>>
    /\ UNCHANGED <<users, tickets, messages, fsm, today, tasks, down>>

----------------------------------------------------------------------------
(* Relay of claimant messages *)

\* m.caption or m.text
MsgText(m) == IF IsSome(m.caption) /\ Get(m.caption) # <<>> THEN m.caption ELSE m.text

\* the native re-send of the media to every operator, then to the broadcast channel
RelayMedia(m) == TrySendEach(Recipients, <<"relay_media", m.content_type, Get(m.file_id)>>)

\* a relay of media that would also drop the oldest attachment of the ticket
catch_user_messages_attaches(c, u, m) ==
    /\ ~IsAnyCommand(m)
    /\ Ctx(c, u).state \notin WizardMsgStates \cup {"wait_text", "wait_reason"}
    /\ IF is_admin(u) \/ LatestNeedsInfo(u) = 0
       THEN /\ out' = <<>>
            /\ UNCHANGED <<messages, tickets>>
       ELSE LET tid == LatestNeedsInfo(u)
                file_id == IF IsMedia(m) THEN m.file_id ELSE None
            IN  /\ messages' = add_message(tid, "user", MsgText(m), file_id)
                /\ tickets' = IF IsMedia(m)
                              THEN [tickets EXCEPT ![tid].atts = Tail(@)]
                              ELSE tickets
                /\ out' = notify_admins(<<"relay", tickets[tid].code, MsgText(m)>>)
                            \o (IF IsMedia(m) THEN RelayMedia(m) ELSE <<>>)
    /\ UNCHANGED <<users, fsm, today, tasks, down>>

catch_user_messages(c, u, m) ==
    /\ ~IsAnyCommand(m)
    /\ Ctx(c, u).state \notin WizardMsgStates \cup {"wait_text", "wait_reason"}
    /\ IF is_admin(u) \/ LatestNeedsInfo(u) = 0
       THEN /\ out' = <<>>
            /\ UNCHANGED messages
       ELSE LET tid == LatestNeedsInfo(u)
                file_id == IF IsMedia(m) THEN m.file_id ELSE None
            IN  /\ messages' = add_message(tid, "user", MsgText(m), file_id)
                /\ out' = notify_admins(<<"relay", tickets[tid].code, MsgText(m)>>)
                            \o (IF IsMedia(m) THEN RelayMedia(m) ELSE <<>>)
    /\ UNCHANGED <<users, tickets, fsm, today, tasks, down>>

----------------------------------------------------------------------------
(* The relay as a coroutine: catch_user_messages is suspended at each await, and  *)
(* tasks holds the suspended runs with the message, the ticket and the position   *)
(* reached: "logged" after add_message, "notified" after notify_admins.           *)

relay_begin(c, u, m) ==
    /\ ~IsAnyCommand(m)
    /\ Ctx(c, u).state \notin WizardMsgStates \cup {"wait_text", "wait_reason"}
    /\ IF is_admin(u) \/ LatestNeedsInfo(u) = 0
       THEN UNCHANGED <<messages, tasks>>
       ELSE LET tid == LatestNeedsInfo(u)
                file_id == IF IsMedia(m) THEN m.file_id ELSE None
            IN  /\ messages' = add_message(tid, "user", MsgText(m), file_id)
                /\ tasks' = Append(tasks, [c |-> c, u |-> u, pc |-> "logged",
                                            payload |-> m, code |-> Some(tickets[tid].code)])
    /\ out' = <<>>
    /\ UNCHANGED <<users, tickets, fsm, today, down>>

\* a relay that would re-send the media before the text header
relay_header_after_media(i) ==
    /\ tasks[i].pc = "logged"
    /\ out' = IF IsMedia(tasks[i].payload) THEN RelayMedia(tasks[i].payload)
              ELSE notify_admins(<<"relay", Get(tasks[i].code), MsgText(tasks[i].payload)>>)
    /\ tasks' = IF IsMedia(tasks[i].payload) THEN [tasks EXCEPT ![i].pc = "notified"]
                ELSE RemoveAt(tasks, i)
    /\ UNCHANGED <<users, tickets, messages, fsm, today, down>>

\* await notify_admins(header + text)
relay_header(i) ==
    /\ tasks[i].pc = "logged"
    /\ out' = notify_admins(<<"relay", Get(tasks[i].code), MsgText(tasks[i].payload)>>)
    /\ tasks' = IF IsMedia(tasks[i].payload) THEN [tasks EXCEPT ![i].pc = "notified"]
                ELSE RemoveAt(tasks, i)
    /\ UNCHANGED <<users, tickets, messages, fsm, today, down>>

\* the send_photo / send_document loop over the operators and the channel
relay_media(i) ==
    /\ tasks[i].pc = "notified"
    /\ out' = RelayMedia(tasks[i].payload)
    /\ tasks' = RemoveAt(tasks, i)
    /\ UNCHANGED <<users, tickets, messages, fsm, today, down>>

----------------------------------------------------------------------------
(* Inbound events *)

TextMsg(t) == [content_type |-> "TEXT", text |-> Some(t), caption |-> None, file_id |-> None]
PhotoMsg(f) == [content_type |-> "PHOTO", text |-> None, caption |-> None, file_id |-> Some(f)]
DocMsg(f) == [content_type |-> "DOCUMENT", text |-> None, caption |-> None, file_id |-> Some(f)]

TxtNick == <<"a", "b">>
TxtShort == <<"a">>
TxtEmail == <<"a", "@", "b", ".", "c">>
TxtOkUpper == <<" ", "O", "K">>

InitState ==
    /\ users = <<>>
    /\ tickets = <<>>
    /\ messages = <<>>
    /\ fsm = [k \in Keys |-> EmptyContext]
    /\ today = 1
    /\ tasks = <<>>
    /\ out = <<>>
    /\ down = {}

\* a control of a keyboard can be pressed in a private chat once the bot has sent one
\* there, which it does in answer to /start or /cashback (both register the user)
HasKeyboard(u) == UserRow(u) # 0

StateOf(u) == Ctx(u, u).state

KnownCodes == {tickets[i].code : i \in 1..Len(tickets)}

UnknownCode == <<"T", "C", "K", "-", "0">>

\* The claimant u in the private chat going straight through the wizard: each
\* control is pressed in the state whose keyboard offers it, and only the forward
\* ones. M: the messages sent, casinos: the casino buttons pressed, maxT / maxM:
\* the caps on the tickets and messages tables.
ForwardStep(u, M, casinos, maxT, maxM) ==
    \/ \E m \in M : cmd_start(u, u, m)
    \/ HasKeyboard(u) /\ StateOf(u) = "None" /\ cb_new_ticket(u, u)
    \/ \E code \in casinos : StateOf(u) = "casino" /\ casino_selected(u, u, code)
    \/ \E m \in M : form_id_input(u, u, m)
    \/ \E m \in M : Len(Ctx(u, u).dep_atts) < MaxAtts /\ dep_attach_media(u, u, m)
    \/ StateOf(u) = "dep_attachments" /\ dep_done_btn(u, u)
    \/ \E m \in M : Len(Ctx(u, u).wd_atts) < MaxAtts /\ wd_attach_media(u, u, m)
    \/ StateOf(u) = "wd_attachments" /\ wd_done_btn(u, u)
    \/ StateOf(u) = "confirm" /\ Len(tickets) < maxT /\ confirm_send(u, u)
    \/ \E m \in M : Len(messages) < maxM /\ catch_user_messages(u, u, m)

\* the cap on the tickets table: a run of the wizard is started while the table has
\* room, or when the start is going to be refused
RoomFor(u, maxT) == Len(tickets) < maxT \/ QuotaReached(count_active_tickets(u))

\* the claimant u going through the wizard with one proof per step
SubmitStep(u, maxT) ==
    \/ cmd_start(u, u, TextMsg(CmdStart))
    \/ HasKeyboard(u) /\ StateOf(u) = "None" /\ RoomFor(u, maxT) /\ cb_new_ticket(u, u)
    \/ StateOf(u) = "casino" /\ casino_selected(u, u, "shuffle")
    \/ form_id_input(u, u, TextMsg(TxtNick))
    \/ Len(Ctx(u, u).dep_atts) = 0 /\ dep_attach_media(u, u, PhotoMsg("f1"))
    \/ StateOf(u) = "dep_attachments" /\ dep_done_btn(u, u)
    \/ Len(Ctx(u, u).wd_atts) = 0 /\ wd_attach_media(u, u, PhotoMsg("f1"))
    \/ StateOf(u) = "wd_attachments" /\ wd_done_btn(u, u)
    \/ StateOf(u) = "confirm" /\ confirm_send(u, u)

\* The operator a in the private chat.
OperatorStep(a, M, codes, actions, maxM) ==
    \/ \E code \in codes, action \in actions :
           /\ action = "approve" => Len(messages) < maxM
           /\ admin_actions(a, a, code, action)
    \/ \E m \in M, ok \in BOOLEAN : Len(messages) < maxM /\ admin_send_text(a, a, m, ok)
    \/ \E m \in M : Len(messages) < maxM /\ admin_reject_with_reason(a, a, m)

----------------------------------------------------------------------------
(* Spec: one claimant and one operator, every handler run to completion *)

SpecMsgs == {TextMsg(CmdStart), TextMsg(TxtNick), PhotoMsg("f1")}
AdminActions == {"approve", "reject", "needinfo", "reply", "files"}

Next ==
    \/ ForwardStep("u1", SpecMsgs, {"shuffle"}, MaxTickets, MaxMessages)
    \/ \E a \in ADMINS :
           OperatorStep(a, {TextMsg(TxtNick)}, KnownCodes \cup {UnknownCode},
                        AdminActions, MaxMessages)

Spec == InitState /\ [][Next]_vars

----------------------------------------------------------------------------
(* SpecQuota: the same claimant and operator with room for a fourth ticket *)

QuotaMaxTickets == 4
QuotaMaxMessages == 1

NextQuota ==
    \/ ForwardStep("u1", SpecMsgs, {"shuffle"}, QuotaMaxTickets, QuotaMaxMessages)
    \/ \E a \in ADMINS :
           OperatorStep(a, {TextMsg(TxtNick)}, KnownCodes, AdminActions, QuotaMaxMessages)

SpecQuota == InitState /\ [][NextQuota]_vars

----------------------------------------------------------------------------
(* SpecWizard: one claimant, every control pressed in every state *)

\* The claimant u in the private chat pressing any control of any keyboard the bot
\* has sent, whatever the state of the session: no callback handler filters on it.
FreeStep(u, M, casinos, maxT) ==
    \/ \E m \in M : cmd_start(u, u, m)
    \/ \E m \in M : cmd_cashback(u, u, m)
    \/ HasKeyboard(u) /\ cb_new_ticket(u, u)
    \/ HasKeyboard(u) /\ back_home(u, u)
    \/ HasKeyboard(u) /\ back_to_casino(u, u)
    \/ \E code \in casinos : HasKeyboard(u) /\ casino_selected(u, u, code)
    \/ \E m \in M : form_id_input(u, u, m)
    \/ \E m \in M : Len(Ctx(u, u).dep_atts) < MaxAtts /\ dep_attach_media(u, u, m)
    \/ \E m \in M : dep_attach_done_text(u, u, m)
    \/ HasKeyboard(u) /\ back_to_id(u, u)
    \/ HasKeyboard(u) /\ dep_done_btn(u, u)
    \/ \E m \in M : Len(Ctx(u, u).wd_atts) < MaxAtts /\ wd_attach_media(u, u, m)
    \/ \E m \in M : wd_attach_done_text(u, u, m)
    \/ HasKeyboard(u) /\ back_to_dep(u, u)
    \/ HasKeyboard(u) /\ wd_done_btn(u, u)
    \/ HasKeyboard(u) /\ cancel_flow(u, u)
    \/ \E m \in M : Len(tickets) < maxT /\ form_confirm(u, u, m)
    \/ HasKeyboard(u) /\ Len(tickets) < maxT /\ confirm_send(u, u)
    \/ HasKeyboard(u) /\ back_to_wd(u, u)

WizardMaxTickets == 1

WizardMsgs ==
    {TextMsg(CmdStart), TextMsg(CmdCashback), TextMsg(TxtNick), TextMsg(TxtShort),
     TextMsg(TxtEmail), TextMsg(TxtOkUpper), TextMsg(TxtConfirm), PhotoMsg("f1"), DocMsg("f2")}

NextWizard == FreeStep("u1", WizardMsgs, {"shuffle", "beef", "closed"}, WizardMaxTickets)

SpecWizard == InitState /\ [][NextWizard]_vars

----------------------------------------------------------------------------
(* SpecGate: the same claimant and controls over one casino, one identifier, one *)
(* done word and one kind of media                                               *)

GateMsgs ==
    {TextMsg(CmdStart), TextMsg(CmdCashback), TextMsg(TxtNick), TextMsg(TxtOkUpper),
     PhotoMsg("f1")}

NextGate == FreeStep("u1", GateMsgs, {"shuffle"}, WizardMaxTickets)

SpecGate == InitState /\ [][NextGate]_vars

----------------------------------------------------------------------------
(* SpecForm: one claimant pressing each control in the state whose keyboard offers *)
(* it, over both identifier kinds, with valid and invalid identifiers              *)

TxtNoDot == <<"a", "@", "b">>

\* The claimant u in the private chat using the keyboard of the current step (its
\* forward, back and cancel controls) and sending the messages M.
FormStep(u, M, casinos, maxT) ==
    \/ \E m \in M : cmd_start(u, u, m)
    \/ HasKeyboard(u) /\ StateOf(u) = "None" /\ cb_new_ticket(u, u)
    \/ \E code \in casinos : StateOf(u) = "casino" /\ casino_selected(u, u, code)
    \/ StateOf(u) = "casino" /\ back_home(u, u)
    \/ \E m \in M : form_id_input(u, u, m)
    \/ StateOf(u) = "project_nick" /\ back_to_casino(u, u)
    \/ \E m \in M : Len(Ctx(u, u).dep_atts) < MaxAtts /\ dep_attach_media(u, u, m)
    \/ \E m \in M : dep_attach_done_text(u, u, m)
    \/ StateOf(u) = "dep_attachments" /\ dep_done_btn(u, u)
    \/ StateOf(u) = "dep_attachments" /\ back_to_id(u, u)
    \/ \E m \in M : Len(Ctx(u, u).wd_atts) < MaxAtts /\ wd_attach_media(u, u, m)
    \/ \E m \in M : wd_attach_done_text(u, u, m)
    \/ StateOf(u) = "wd_attachments" /\ wd_done_btn(u, u)
    \/ StateOf(u) = "wd_attachments" /\ back_to_dep(u, u)
    \/ \E m \in M : Len(tickets) < maxT /\ form_confirm(u, u, m)
    \/ StateOf(u) = "confirm" /\ Len(tickets) < maxT /\ confirm_send(u, u)
    \/ StateOf(u) = "confirm" /\ back_to_wd(u, u)
    \/ StateOf(u) # "None" /\ cancel_flow(u, u)

FormMsgs ==
    {TextMsg(CmdStart), TextMsg(TxtShort), TextMsg(TxtNick), TextMsg(TxtEmail),
     TextMsg(TxtNoDot), TextMsg(TxtOkUpper), TextMsg(TxtConfirm), PhotoMsg("f1")}

NextForm == FormStep("u1", FormMsgs, {"shuffle", "beef"}, WizardMaxTickets)

SpecForm == InitState /\ [][NextForm]_vars

----------------------------------------------------------------------------
(* SpecAdmission: two claimants, one after the other, filling the quota, and an *)
(* operator approving tickets and requesting information *)

\* no claimant other than u is in the wizard
OthersIdle(u) == \A v \in Claimants \ {u} : StateOf(v) = "None"

\* u2 comes first and is done by the time u1 sends the first /start
Turn(u) == OthersIdle(u) /\ (u = "u2" => UserRow("u1") = 0)

NextAdmission ==
    \/ \E u \in Claimants : Turn(u) /\ SubmitStep(u, QuotaMaxTickets)
    \/ \E u \in Claimants :
           /\ Turn(u)
           /\ RoomFor(u, QuotaMaxTickets)
           /\ cmd_cashback(u, u, TextMsg(CmdCashback))
    \/ \E a \in ADMINS, code \in KnownCodes :
           Len(messages) < QuotaMaxMessages /\ admin_actions(a, a, code, "approve")
    \/ \E a \in ADMINS, code \in KnownCodes : admin_actions(a, a, code, "needinfo")

SpecAdmission == InitState /\ [][NextAdmission]_vars

----------------------------------------------------------------------------
(* SpecDesk: the operator's desk. One claimant submits tickets with one proof of *)
(* each kind, answers requests, and also presses the moderation controls and sends *)
(* the operator commands; the operator uses every control and command. *)

DeskMaxTickets == 1
DeskMaxMessages == 2

\* "/ticket <code>", "/files <code>" for the known codes and an unknown one, "/tickets"
CommandMsgs ==
    {TextMsg(cmd \o <<" ">> \o code) :
        cmd \in {CmdTicket, CmdFiles}, code \in KnownCodes \cup {UnknownCode}}
    \cup {TextMsg(CmdTickets)}

\* every event of the operator a in the private chat
OperatorEvent(a) ==
    \/ OperatorStep(a, {TextMsg(TxtNick)}, KnownCodes \cup {UnknownCode}, AdminActions,
                    DeskMaxMessages)
    \/ \E m \in CommandMsgs : cmd_ticket(a, a, m)
    \/ \E m \in CommandMsgs : cmd_files(a, a, m)
    \/ \E m \in CommandMsgs : cmd_tickets(a, a, m)

NextDesk ==
    \/ SubmitStep("u1", DeskMaxTickets)
    \/ Len(messages) < DeskMaxMessages /\ catch_user_messages("u1", "u1", PhotoMsg("f1"))
    \/ \E a \in ADMINS : OperatorEvent(a)

SpecDesk == InitState /\ [][NextDesk]_vars

----------------------------------------------------------------------------
(* SpecIntruder: the claimant of SpecDesk also presses the moderation controls and *)
(* sends the operator commands; the operator uses every control. *)

\* every event of the non-operator u in the private chat
ClaimantEvent(u) ==
    \/ SubmitStep(u, DeskMaxTickets)
    \/ \E m \in {TextMsg(TxtNick), PhotoMsg("f1")} :
           Len(messages) < DeskMaxMessages /\ catch_user_messages(u, u, m)
    \/ \E code \in KnownCodes \cup {UnknownCode}, action \in AdminActions :
           admin_actions(u, u, code, action)
    \/ \E m \in CommandMsgs : cmd_ticket(u, u, m)
    \/ \E m \in CommandMsgs : cmd_files(u, u, m)
    \/ \E m \in CommandMsgs : cmd_tickets(u, u, m)

NextIntruder ==
    \/ ClaimantEvent("u1")
    \/ \E a \in ADMINS :
           OperatorStep(a, {TextMsg(TxtNick)}, KnownCodes, AdminActions, DeskMaxMessages)

SpecIntruder == InitState /\ [][NextIntruder]_vars

----------------------------------------------------------------------------
(* SpecFanOut: the claimant of SpecDesk, an operator asking for more information, and *)
(* recipients of the fan-out that come and go (an operator who blocked the bot, a *)
(* channel the bot was removed from) *)

Outage ==
    /\ \E D \in SUBSET {Recipients[i] : i \in 1..Len(Recipients)} : down' = D
    /\ down' # down
    /\ UNCHANGED <<users, tickets, messages, fsm, today, tasks, out>>

NextFanOut ==
    \/ SubmitStep("u1", DeskMaxTickets)
    \/ \E m \in {TextMsg(TxtNick), PhotoMsg("f1")} :
           Len(messages) < DeskMaxMessages /\ catch_user_messages("u1", "u1", m)
    \/ \E a \in ADMINS, code \in KnownCodes : admin_actions(a, a, code, "needinfo")
    \/ Outage

SpecFanOut == InitState /\ [][NextFanOut]_vars

----------------------------------------------------------------------------
(* SpecBlocked: SpecFanOut, and sends to the claimant that fail while the claimant is *)
(* at the confirmation step *)

\* the transport starts failing for the chat of u, who is looking at the summary
TransportFailure(u) ==
    /\ StateOf(u) = "confirm"
    /\ u \notin down
    /\ down' = down \cup {u}
    /\ UNCHANGED <<users, tickets, messages, fsm, today, tasks, out>>

NextBlocked ==
    \/ "u1" \notin down /\ SubmitStep("u1", DeskMaxTickets)
    \/ "u1" \in down /\ StateOf("u1") = "confirm" /\ confirm_send("u1", "u1")
    \/ \E m \in {TextMsg(TxtNick), PhotoMsg("f1")} :
           /\ "u1" \notin down
           /\ Len(messages) < DeskMaxMessages
           /\ catch_user_messages("u1", "u1", m)
    \/ \E a \in ADMINS, code \in KnownCodes : admin_actions(a, a, code, "needinfo")
    \/ Outage
    \/ TransportFailure("u1")

SpecBlocked == InitState /\ [][NextBlocked]_vars

----------------------------------------------------------------------------
(* SpecDialog: one claimant submitting tickets and one operator who uses every control *)
(* on them, opens sub-dialogs one over the other, and sends texts, blank ones too, *)
(* with and without a sub-dialog pending *)

DialogMaxTickets == 2
DialogMaxMessages == 1

TxtBlank == <<" ">>

DialogMsgs == {TextMsg(TxtNick), TextMsg(TxtBlank)}

NextDialog ==
    \/ SubmitStep("u1", DialogMaxTickets)
    \/ \E a \in ADMINS :
           OperatorStep(a, DialogMsgs, KnownCodes, AdminActions, DialogMaxMessages)
    \/ \E a \in ADMINS, m \in DialogMsgs : catch_user_messages(a, a, m)

SpecDialog == InitState /\ [][NextDialog]_vars

----------------------------------------------------------------------------
(* SpecOneShot: the sub-dialogs of one operator while the claimant can go out of reach
   (the claimant blocks the bot): a send to the claimant raises from then on *)

ClaimantBlocks(u) ==
    /\ UserRow(u) # 0
    /\ u \notin down
    /\ down' = down \cup {u}
    /\ UNCHANGED <<users, tickets, messages, fsm, today, tasks, out>>

NextOneShot ==
    \/ "u1" \notin down /\ SubmitStep("u1", DialogMaxTickets)
    \/ \E a \in ADMINS, code \in KnownCodes, action \in {"reject", "needinfo", "reply"} :
           admin_actions(a, a, code, action)
    \/ \E a \in ADMINS, m \in DialogMsgs :
           LET code == Ctx(a, a).ticket_code
               tid == IF IsSome(code) THEN ticket_id_from_code(Get(code)) ELSE 0
               ok == IF tid = 0 THEN TRUE ELSE OwnerTg(tid) \notin down
           IN  (ok => Len(messages) < DialogMaxMessages) /\ admin_send_text(a, a, m, ok)
    \/ \E a \in ADMINS, m \in DialogMsgs :
           Len(messages) < DialogMaxMessages /\ admin_reject_with_reason(a, a, m)
    \/ \E a \in ADMINS, m \in DialogMsgs : catch_user_messages(a, a, m)
    \/ ClaimantBlocks("u1")

SpecOneShot == InitState /\ [][NextOneShot]_vars

----------------------------------------------------------------------------
(* SpecCodes: one claimant creating tickets one after the other, across midnight *)

MaxDay == 3
CodesMaxTickets == 3

\* the calendar day of datetime.now() advances
Midnight ==
    /\ today < MaxDay
    /\ today' = today + 1
    /\ UNCHANGED <<users, tickets, messages, fsm, tasks, out, down>>

NextCodes ==
    \/ ForwardStep("u1", SpecMsgs, {"shuffle"}, CodesMaxTickets, QuotaMaxMessages)
    \/ Midnight

SpecCodes == InitState /\ [][NextCodes]_vars

----------------------------------------------------------------------------
(* SpecRace: one claimant with a session in the private chat and one in the group *)
(* chat, the finalizations running as interleaved tasks                            *)

MaxTasks == 2
RaceMaxTickets == 4

\* The claimant u in chat c going straight through the wizard; the send-now control
\* is on screen in c once the summary was shown there, and u presses it on a draft
\* that went through the withdrawal step.
RaceStep(c, u, M, casinos) ==
    \/ \E m \in M : cmd_start(c, u, m)
    \/ HasKeyboard(u) /\ Ctx(c, u).state = "None" /\ cb_new_ticket(c, u)
    \/ \E code \in casinos : Ctx(c, u).state = "casino" /\ casino_selected(c, u, code)
    \/ \E m \in M : form_id_input(c, u, m)
    \/ \E m \in M : Len(Ctx(c, u).dep_atts) < MaxAtts /\ dep_attach_media(c, u, m)
    \/ Ctx(c, u).state = "dep_attachments" /\ dep_done_btn(c, u)
    \/ \E m \in M : Len(Ctx(c, u).wd_atts) < MaxAtts /\ wd_attach_media(c, u, m)
    \/ Ctx(c, u).state = "wd_attachments" /\ wd_done_btn(c, u)
    \/ /\ Ctx(c, c).state = "confirm"
       /\ Ctx(c, u).wd_atts # <<>>
       /\ Len(tasks) < MaxTasks
       /\ Len(tickets) + Len(tasks) < RaceMaxTickets
       /\ finalize_check(c, u)

NextRace ==
    \/ \E c \in {"u1", GroupChat} : RaceStep(c, "u1", SpecMsgs, {"shuffle"})
    \/ \E i \in DOMAIN tasks : create_ticket_gen(i)
    \/ \E i \in DOMAIN tasks : create_ticket_insert(i)
    \/ \E i \in DOMAIN tasks : finalize_finish(i)

SpecRace == InitState /\ [][NextRace]_vars

----------------------------------------------------------------------------
(* SpecRelay: the relay of a claimant's text and photo run await by await, with   *)
(* operators and the channel going out of reach and coming back in between        *)

NextRelay ==
    \/ SubmitStep("u1", DeskMaxTickets)
    \/ \E a \in ADMINS, code \in KnownCodes : admin_actions(a, a, code, "needinfo")
    \/ \E m \in {TextMsg(TxtNick), PhotoMsg("f1")} :
           /\ Len(messages) < DeskMaxMessages
           /\ Len(tasks) < MaxTasks
           /\ relay_begin("u1", "u1", m)
    \/ \E i \in 1..Len(tasks) : relay_header(i)
    \/ \E i \in 1..Len(tasks) : relay_media(i)
    \/ Outage

SpecRelay == InitState /\ [][NextRelay]_vars

----------------------------------------------------------------------------
(* SpecFiles: the attachments of one ticket listed by the operator, by the files   *)
(* control and by /files; the ticket was created with nd deposit and nw withdrawal *)
(* attachments, all photos, all documents or both in turn                          *)

MaxDeposits == 21
MaxWithdrawals == 11

InitFiles ==
    /\ users = <<"u1">>
    /\ \E nd \in 0..MaxDeposits, nw \in 0..MaxWithdrawals, p \in {"photo", "doc", "both"} :
           LET media(k) == IF p = "both" THEN (IF k % 2 = 1 THEN "photo" ELSE "doc") ELSE p
               deps == [k \in 1..nd |-> [kind |-> <<"deposit", media(k)>>, file_id |-> k]]
               wds == [k \in 1..nw |-> [kind |-> <<"withdraw", media(k)>>, file_id |-> nd + k]]
           IN  tickets = << [ code |-> <<"T", "C", "K", "-">> \o DayStamp(1) \o <<"-">>
                                          \o Format04(1),
                              user_id |-> 1,
                              email |-> None,
                              project_nick |-> Some(TxtNick),
                              casino_code |-> Some("shuffle"),
                              status |-> "new",
                              created_at |-> 1,
                              atts |-> deps \o wds ] >>
    /\ messages = <<>>
    /\ fsm = [k \in Keys |-> EmptyContext]
    /\ today = 1
    /\ tasks = <<>>
    /\ out = <<>>
    /\ down = {}

NextFiles ==
    \/ \E a \in ADMINS, code \in KnownCodes \cup {UnknownCode} :
           admin_actions(a, a, code, "files")
    \/ \E a \in ADMINS, m \in CommandMsgs : cmd_files(a, a, m)

SpecFiles == InitFiles /\ [][NextFiles]_vars

----------------------------------------------------------------------------
(* Claims *)

\* the tickets of identity u whose status is new or needs_info
ActiveOf(u) ==
    {i \in 1..Len(tickets) : OwnerTg(i) = u /\ tickets[i].status \in {"new", "needs_info"}}

\* C1: in every reachable state every user has at most 3 tickets in new/needs_info,
\* whatever the claimant and the operator did, each handler run to completion.
C1_ActiveAtMostThree == \A u \in Ids : Cardinality(ActiveOf(u)) <= 3

\* C7: a ticket's status becomes approved or rejected only from new or needs_info, and
\* a status that is approved or rejected is never changed again.
C7_TerminalStatuses ==
    [][\A i \in 1..Len(tickets) :
          tickets'[i].status # tickets[i].status =>
              /\ tickets[i].status \notin {"approved", "rejected"}
              /\ tickets'[i].status \in {"approved", "rejected"} =>
                     tickets[i].status \in {"new", "needs_info"}]_vars

\* the ticket of identity u created last, 0 when u has none
MostRecentTicket(u) ==
    LET S == {i \in 1..Len(tickets) : OwnerTg(i) = u}
    IN  IF S = {} THEN 0 ELSE CHOOSE x \in S : \A y \in S : y <= x

MostRecentNeedsInfo(u) ==
    MostRecentTicket(u) # 0 /\ tickets[MostRecentTicket(u)].status = "needs_info"

RelayedIn(o) == \E i \in 1..Len(o) : o[i].body[1] = "relay"

\* C8: a message of a claimant that reaches the relay is forwarded to the operators
\* if and only if the claimant's most recently created ticket has status needs_info
\* when the message arrives; the claimant's older tickets do not matter.
C8_RelayIffMostRecentNeedsInfo ==
    [][\A u \in Claimants : \A m \in SpecMsgs :
          catch_user_messages(u, u, m) => (RelayedIn(out') <=> MostRecentNeedsInfo(u))]_vars

\* C3: a ticket is created only by a confirmation received while the claimant's
\* session is in Confirming: a confirmation control pressed while the session is idle
\* or at an earlier step, or pressed again after a submission, creates no ticket.
C3_CreatedOnlyInConfirming ==
    [][Len(tickets') > Len(tickets) =>
          \E u \in Claimants :
              /\ StateOf(u) = "confirm"
              /\ users[tickets'[Len(tickets')].user_id] = u]_vars

HasAttachment(t, category) == \E i \in 1..Len(t.atts) : t.atts[i].kind[1] = category

\* C4: every persisted ticket has a casino code, at least one deposit attachment and
\* at least one withdrawal attachment, whatever controls the claimant pressed.
C4_TicketsComplete ==
    \A i \in 1..Len(tickets) :
        /\ IsSome(tickets[i].casino_code)
        /\ HasAttachment(tickets[i], "deposit")
        /\ HasAttachment(tickets[i], "withdraw")

NonEmpty(o) == IsSome(o) /\ Get(o) # <<>>

\* C5: every persisted ticket has exactly one of nickname and email non-empty, the
\* one of the identifier kind configured for the ticket's casino.
C5_IdentifierKind ==
    \A i \in 1..Len(tickets) :
        IF casino_id_type(tickets[i].casino_code) = "email"
        THEN NonEmpty(tickets[i].email) /\ tickets[i].project_nick = None
        ELSE NonEmpty(tickets[i].project_nick) /\ tickets[i].email = None

\* C6: a session is in Confirming only if its draft holds at least one withdrawal
\* attachment, for every ordering of uploads, back transitions and done signals.
C6_ConfirmingHasWithdrawal ==
    \A u \in Claimants : StateOf(u) = "confirm" => Len(Ctx(u, u).wd_atts) >= 1

\* C6 witness: Confirming reached through a back transition, with no deposit at all
C6_Witness ==
    /\ StateOf("u1") = "confirm"
    /\ Len(Ctx("u1", "u1").wd_atts) >= 1
    /\ Len(Ctx("u1", "u1").dep_atts) = 0

\* C2: when the finalizations of the user's sessions interleave (re-check, then
\* creation), the user never has more than MAX_ACTIVE_TICKETS tickets in new/needs_info.
C2_RaceAtMostThree ==
    \A u \in Claimants :
        Cardinality({i \in 1..Len(tickets) :
                        OwnerTg(i) = u /\ tickets[i].status \in ACTIVE_STATUSES})
            <= MAX_ACTIVE_TICKETS

DigitValue(ch) == CHOOSE d \in 0..9 : DigitChars[d + 1] = ch

RECURSIVE SeqValue(_)
\* the number a string of decimal digits denotes
SeqValue(t) ==
    IF t = <<>> THEN 0 ELSE 10 * SeqValue(SubSeq(t, 1, Len(t) - 1)) + DigitValue(t[Len(t)])

CreatedBefore(i) == {j \in 1..(i - 1) : tickets[j].created_at = tickets[i].created_at}

\* C9: under sequential creation the codes are pairwise distinct and the sequence
\* number of every ticket is the number of tickets created earlier that day plus 1.
C9_SequentialCodes ==
    /\ \A i, j \in 1..Len(tickets) : i # j => tickets[i].code # tickets[j].code
    /\ \A i \in 1..Len(tickets) :
           /\ CodeDay(tickets[i].code) = DayStamp(tickets[i].created_at)
           /\ Len(CodeSeq(tickets[i].code)) = 4
           /\ SeqValue(CodeSeq(tickets[i].code)) = Cardinality(CreatedBefore(i)) + 1

\* C9 witness: two tickets of one day, then the first ticket of the next day
C9_Witness ==
    /\ Len(tickets) = 3
    /\ tickets[1].created_at = 1 /\ tickets[2].created_at = 1 /\ tickets[3].created_at = 2

\* C10: when two creations of one day interleave, generation and insertion act as one
\* atomic step: every creation that generated its code persists a ticket under it.
C10_InterleavedCreationsPersist ==
    [][\A i \in DOMAIN tasks :
          create_ticket_insert(i) =>
              /\ Len(tickets') = Len(tickets) + 1
              /\ \A j \in DOMAIN tasks :
                     j # i /\ tasks[j].pc = "coded" => tasks[j].code # tasks[i].code]_vars

\* a confirmation of u: the send-now control, or the confirmation text m
Confirmation(u, m) == confirm_send(u, u) \/ (IsConfirmText(m) /\ form_confirm(u, u, m))

\* the last row of tickets' is the ticket of u's draft, and nothing else changed
PersistsDraft(u) ==
    LET d == Ctx(u, u)
        t == tickets'[Len(tickets')]
    IN  /\ Len(tickets') = Len(tickets) + 1
        /\ SubSeq(tickets', 1, Len(tickets)) = tickets
        /\ users[t.user_id] = u
        /\ t.status = "new"
        /\ t.casino_code = d.casino_code
        /\ IF casino_id_type(d.casino_code) = "email"
           THEN t.email = d.project_nick /\ t.project_nick = None
           ELSE t.project_nick = d.project_nick /\ t.email = None
        /\ Len(t.atts) = Len(d.dep_atts) + Len(d.wd_atts)
        /\ SubSeq(t.atts, 1, Len(d.dep_atts)) = d.dep_atts
        /\ SubSeq(t.atts, Len(d.dep_atts) + 1, Len(t.atts)) = d.wd_atts

\* C11: a confirmation accepted in Confirming while the user has fewer than 3 active
\* tickets persists exactly one ticket, with status new, the draft's casino and
\* identifier and the draft's attachments (deposits, then withdrawals), and leaves the
\* session idle with an empty draft.
C11_ConfirmationPersistsDraft ==
    [][\A u \in Claimants : \A m \in FormMsgs :
          (StateOf(u) = "confirm" /\ Cardinality(ActiveOf(u)) < 3 /\ Confirmation(u, m))
              => (PersistsDraft(u) /\ fsm'[<<u, u>>] = EmptyContext)]_vars

\* C11 witness: a ticket of the email-kind casino persisted, the session idle again
C11_Witness ==
    /\ Len(tickets) = 1
    /\ tickets[1].casino_code = Some("beef")
    /\ tickets[1].email = Some(TxtEmail)
    /\ Len(tickets[1].atts) = 2
    /\ Ctx("u1", "u1") = EmptyContext
    /\ out # <<>> /\ out[1].body[1] = "created"

\* the texts of FormMsgs that are e-mail addresses
EmailTexts == {TxtEmail}

\* m fails validation for a casino of the given identifier kind
FailsValidation(kind, m) ==
    IF kind = "email"
    THEN ~IsSome(m.text) \/ Get(m.text) \notin EmailTexts
    ELSE ~IsSome(m.text) \/ Len(SelectSeq(Get(m.text), LAMBDA ch : ch # " ")) < 2

\* C17: in EnteringIdentifier with a casino selected, a value that fails validation
\* leaves the session there with the identifier unchanged, and a valid value is stored
\* and moves the session to CollectingDeposits.
C17_IdentifierValidation ==
    [][\A u \in Claimants : \A m \in FormMsgs :
          ( /\ StateOf(u) = "project_nick"
            /\ IsSome(Ctx(u, u).casino_code)
            /\ form_id_input(u, u, m) )
              => IF FailsValidation(casino_id_type(Ctx(u, u).casino_code), m)
                 THEN fsm'[<<u, u>>] = fsm[<<u, u>>]
                 ELSE /\ fsm'[<<u, u>>].state = "dep_attachments"
                      /\ fsm'[<<u, u>>].project_nick =
                             Some(SelectSeq(Get(m.text), LAMBDA ch : ch # " "))]_vars

\* C17 witness: an e-mail accepted for the email-kind casino
C17_Witness ==
    /\ StateOf("u1") = "dep_attachments"
    /\ Ctx("u1", "u1").casino_code = Some("beef")
    /\ Ctx("u1", "u1").project_nick = Some(TxtEmail)

\* l lists exactly the active tickets of u, by code and status, newest first
IsActiveListOf(l, u) ==
    /\ Len(l) = Cardinality(ActiveOf(u))
    /\ \A k \in 1..Len(l) :
           \E i \in ActiveOf(u) :
               /\ l[k] = <<tickets[i].code, tickets[i].status>>
               /\ Cardinality({j \in ActiveOf(u) : j > i}) = k - 1

\* C12: when a user with 3 tickets in new/needs_info starts a claim, by the new-claim
\* control or the cashback command, the session does not change, no ticket is created
\* and the answer lists exactly that user's active tickets, newest first.
C12_StartRefusedAtQuota ==
    [][\A u \in Claimants :
          ( /\ Cardinality(ActiveOf(u)) >= 3
            /\ (cb_new_ticket(u, u) \/ cmd_cashback(u, u, TextMsg(CmdCashback))) )
              => /\ fsm' = fsm
                 /\ tickets' = tickets
                 /\ Len(out') = 1
                 /\ out'[1].to = u
                 /\ out'[1].body[1] = "active_list"
                 /\ IsActiveListOf(out'[1].body[2], u)]_vars

\* C12 witness: a start refused with a list of three, of which one is in needs_info,
\* while the store also holds a ticket that is not in the list
C12_Witness ==
    /\ Len(out) = 1
    /\ out[1].body[1] = "active_list"
    /\ Len(out[1].body[2]) = 3
    /\ \E k \in 1..3 : out[1].body[2][k][2] = "needs_info"
    /\ Len(out[1].body) = 3
    /\ Len(tickets) = 4
    /\ StateOf(out[1].to) = "None"

C16_CancelDiscardsDraft ==
    [][\A u \in Claimants :
          cancel_flow(u, u)
              => /\ fsm'[<<u, u>>] = EmptyContext
                 /\ tickets' = tickets
                 /\ messages' = messages
                 /\ users' = users]_vars

\* C16 witness: a cancellation was answered, the session is idle and empty, and the
\* store holds a ticket of an earlier run
C16_Witness ==
    /\ Len(out) = 1
    /\ out[1].body = <<"cancelled">>
    /\ Ctx(out[1].to, out[1].to) = EmptyContext
    /\ Len(tickets) = 1

StatusOf(T, code) == T[ticket_id_from_code(code)].status

AdminEntries(M, tid) ==
    {k \in 1..Len(M) : M[k].ticket_id = tid /\ M[k].sender = "admin"}

\* C14: the needinfo control sets the status to needs_info at the press, with the
\* sub-dialog opened and no text collected yet; from then on the status stays
\* needs_info under every event that is not an approval or a rejection with a reason,
\* so also when the operator sends no text, when the text cannot be delivered, and
\* when the operator opens another sub-dialog instead.
C14_NeedsInfoAtPress ==
    [][\A code \in KnownCodes :
          /\ (\E a \in ADMINS : admin_actions(a, a, code, "needinfo"))
                => /\ StatusOf(tickets', code) = "needs_info"
                   /\ messages' = messages
          /\ ( /\ StatusOf(tickets, code) = "needs_info"
               /\ ~ \E a \in ADMINS : admin_actions(a, a, code, "approve")
               /\ ~ \E a \in ADMINS, m \in {TextMsg(TxtNick)} :
                        admin_reject_with_reason(a, a, m) )
                => StatusOf(tickets', code) = "needs_info"]_vars

\* C14 witness: a ticket approved earlier is in needs_info with no text of the operator
\* in its log, and the operator's session holds the rejection sub-dialog that replaced
\* the one opened by needinfo
C14_Witness ==
    \E a \in ADMINS, tid \in 1..Len(tickets) :
        /\ tickets[tid].status = "needs_info"
        /\ \A k \in AdminEntries(messages, tid) : messages[k].text = Some(<<"approved">>)
        /\ AdminEntries(messages, tid) # {}
        /\ Ctx(a, a).state = "wait_reason"
        /\ Ctx(a, a).ticket_code = Some(tickets[tid].code)

Terminal(code) == StatusOf(tickets, code) \in {"approved", "rejected"}

\* C15: on a ticket in approved or rejected every moderation action is carried out as on
\* any other: approve sets approved, logs the approval and tells the owner; the reject
\* control opens the reason sub-dialog and the reason sets rejected; needinfo sets
\* needs_info. In particular an approve after a rejection with a reason is accepted.
C15_NoTransitionGuard ==
    [][\A a \in ADMINS, code \in KnownCodes :
          Terminal(code) =>
              /\ admin_actions(a, a, code, "approve")
                    => /\ StatusOf(tickets', code) = "approved"
                       /\ messages' = add_message(ticket_id_from_code(code), "admin",
                                                  Some(<<"approved">>), None)
                       /\ out' = <<Send(OwnerTg(ticket_id_from_code(code)),
                                        <<"approved", code>>)>>
              /\ admin_actions(a, a, code, "reject")
                    => /\ Ctx(a, a).state' = "wait_reason"
                       /\ Ctx(a, a).ticket_code' = Some(code)
              /\ admin_actions(a, a, code, "needinfo")
                    => StatusOf(tickets', code) = "needs_info"
              /\ ( /\ Ctx(a, a).ticket_code = Some(code)
                   /\ admin_reject_with_reason(a, a, TextMsg(TxtNick)) )
                    => StatusOf(tickets', code) = "rejected"]_vars

\* C15 witness: a ticket is approved and its log holds the rejection with the reason
\* followed by the approval
C15_Witness ==
    \E tid \in 1..Len(tickets), j, k \in 1..Len(messages) :
        /\ tickets[tid].status = "approved"
        /\ j < k
        /\ messages[j] = [ticket_id |-> tid, sender |-> "admin",
                          text |-> Some(<<"rejected", TxtNick>>), file_id |-> None]
        /\ messages[k] = [ticket_id |-> tid, sender |-> "admin",
                          text |-> Some(<<"approved">>), file_id |-> None]

\* C19: a moderation action on a code that resolves to no ticket is aborted: the control
\* is answered with the not-found alert, /files with the not-found message, and no
\* ticket, message-log entry, user or session (so no sub-dialog) changes.
C19_UnknownCodeAborts ==
    [][\A a \in ADMINS :
          /\ \A action \in AdminActions :
                admin_actions(a, a, UnknownCode, action)
                    => /\ out' = <<Send(a, <<"alert_not_found">>)>>
                       /\ UNCHANGED <<users, tickets, messages, fsm>>
          /\ cmd_files(a, a, TextMsg(CmdFiles \o <<" ">> \o UnknownCode))
                => /\ out' = <<Send(a, <<"not_found">>)>>
                   /\ UNCHANGED <<users, tickets, messages, fsm>>]_vars

\* C19 witness: the not-found alert was the answer while a ticket exists and the
\* operator's session is idle
C19_Witness ==
    /\ Len(tickets) >= 1
    /\ out = <<Send("a1", <<"alert_not_found">>)>>
    /\ Ctx("a1", "a1") = EmptyContext

\* what a message sent by the bot shows of a ticket: its card, a list of tickets, its
\* attachments
TicketData == {"ticket_card", "ticket_list", "single", "media_group", "no_attachments"}

\* what no event of the non-operator u may do: change the status of a ticket, append
\* an operator entry to the message log, open a sub-dialog in its own session or touch
\* an operator's session, get ticket data or attachments sent
Trespass(u) ==
    \/ \E i \in 1..Len(tickets) : tickets'[i].status # tickets[i].status
    \/ \E k \in 1..Len(messages') : messages'[k].sender = "admin" /\ k > Len(messages)
    \/ fsm'[<<u, u>>].state \in {"wait_text", "wait_reason"}
    \/ \E a \in ADMINS : fsm'[<<a, a>>] # fsm[<<a, a>>]
    \/ \E k \in 1..Len(out') : out'[k].to = u /\ out'[k].body[1] \in TicketData

\* C18: no event of an identity outside the operator set (a moderation control pressed,
\* an operator command, a message or a wizard control in any session state) changes the
\* status of a ticket, appends an operator entry to the message log, opens a sub-dialog
\* or delivers ticket data or attachments to that identity: a step that does one of
\* these is not an event of a non-operator.
C18_OperatorsOnly ==
    [][\A u \in Claimants : Trespass(u) => ~ClaimantEvent(u)]_vars

\* C18 witness: the claimant pressed a moderation control of a ticket the operator had
\* put to needs_info and got the denial
C18_Witness ==
    /\ out = <<Send("u1", <<"alert_admins_only">>)>>
    /\ \E i \in 1..Len(tickets) : tickets[i].status = "needs_info"
    /\ StateOf("u1") = "None"

\* the recipients of a fan-out a send reaches at present
Reachable == {Recipients[i] : i \in 1..Len(Recipients)} \ down

DeliveredTo(O, r, kind) == \E k \in 1..Len(O) : O[k].to = r /\ O[k].body[1] = kind

\* C20: in the fan-out of a new ticket and in the relay of a claimant's message, a send
\* that fails for one recipient keeps no other operator and not the broadcast channel
\* from getting theirs, and the operation is carried through: the ticket is created,
\* the claimant is told and the session cleared; the message is logged and, for a
\* photo or document, the media follows the text to every recipient in reach.
C20_FanOutIsolated ==
    [][\A u \in Claimants :
          /\ (confirm_send(u, u) /\ Len(tickets') = Len(tickets) + 1)
                => /\ \A r \in Reachable : DeliveredTo(out', r, "new_ticket")
                   /\ DeliveredTo(out', u, "created")
                   /\ fsm'[<<u, u>>] = EmptyContext
          /\ \A m \in {TextMsg(TxtNick), PhotoMsg("f1")} :
                (catch_user_messages(u, u, m) /\ LatestNeedsInfo(u) # 0)
                    => /\ \A r \in Reachable : DeliveredTo(out', r, "relay")
                       /\ IsMedia(m) => \A r \in Reachable : DeliveredTo(out', r, "relay_media")
                       /\ Len(messages') = Len(messages) + 1
                       /\ messages'[Len(messages')].sender = "user"]_vars

\* C20 witness: with the operator out of reach, the text and the media of a relayed
\* photo were both delivered to the broadcast channel and nothing else was
C20_Witness ==
    /\ down = {"a1"}
    /\ Len(out) = 2
    /\ out[1].to = GroupChat /\ out[1].body[1] = "relay"
    /\ out[2].to = GroupChat /\ out[2].body[1] = "relay_media"
    /\ messages # <<>> /\ messages[Len(messages)].sender = "user"

\* C21: once a confirmation has persisted the ticket, every operator and the broadcast
\* channel in reach is sent the new-ticket notification, also when the send of the
\* ticket-created confirmation to the claimant fails.
C21_NotifiedDespiteClaimant ==
    [][\A u \in Claimants :
          (StateOf(u) = "confirm" /\ confirm_send(u, u) /\ Len(tickets') = Len(tickets) + 1)
              => \A r \in Reachable : DeliveredTo(out', r, "new_ticket")]_vars

\* the place of a session state in the order of the wizard steps, idle being 0
StepRank(st) ==
    CASE st = "casino" -> 1
      [] st = "project_nick" -> 2
      [] st = "dep_attachments" -> 3
      [] st = "wd_attachments" -> 4
      [] st = "confirm" -> 5
      [] OTHER -> 0

\* C22: every claimant event leaves the wizard step unchanged, moves it to the next
\* step, moves it to the immediately preceding step, or returns to idle.
C22_StepsOrdered ==
    [][\A u \in Claimants :
          LET a == StepRank(StateOf(u))
              b == StepRank(fsm'[<<u, u>>].state)
          IN  b = a \/ b = a + 1 \/ b = a - 1 \/ b = 0]_vars

\* C23: a session is in the withdrawals step only if its draft holds at least one
\* deposit attachment.
C23_WithdrawalsHaveDeposit ==
    \A u \in Claimants : StateOf(u) = "wd_attachments" => Len(Ctx(u, u).dep_atts) >= 1

\* the identifier a ticket stores, in the column of its casino's identifier kind
StoredIdentifier(t) ==
    IF casino_id_type(t.casino_code) = "email" THEN t.email ELSE t.project_nick

\* C24: the identifier stored with a persisted ticket of a configured casino passes the
\* validation of that casino (nickname kind: at least 2 characters; email kind: the
\* casino's pattern).
C24_IdentifierValidForCasino ==
    \A i \in 1..Len(tickets) :
        (IsSome(tickets[i].casino_code) /\ IsSome(StoredIdentifier(tickets[i])))
            => ~validate_id_value(tickets[i].casino_code, Get(StoredIdentifier(tickets[i])))

\* the operator a has the reason sub-dialog of the ticket code pending
AwaitsReason(a, code) ==
    Ctx(a, a).state = "wait_reason" /\ Ctx(a, a).ticket_code = Some(code)

\* the step is the rejection of the ticket code with the reason: status rejected, the
\* reason appended to the log as an operator entry and sent to the owner
RejectedWith(code, reason) ==
    LET tid == ticket_id_from_code(code)
    IN  /\ StatusOf(tickets', code) = "rejected"
        /\ messages' = Append(messages, [ticket_id |-> tid, sender |-> "admin",
                                         text |-> Some(<<"rejected", reason>>),
                                         file_id |-> None])
        /\ out' = <<Send(OwnerTg(tid), <<"rejected", code, reason>>)>>

\* C25: the reject control changes no status and logs nothing; a ticket becomes rejected
\* only in the step that consumes the message of an operator whose reason sub-dialog
\* for that ticket is pending, and that step logs the reason and sends it to the
\* claimant, a blank text being replaced by the placeholder.
C25_RejectedByReasonOnly ==
    [][\A code \in KnownCodes :
          /\ \A a \in ADMINS :
                admin_actions(a, a, code, "reject")
                    => tickets' = tickets /\ messages' = messages
          /\ (StatusOf(tickets, code) # "rejected" /\ StatusOf(tickets', code) = "rejected")
                => \E a \in ADMINS, m \in DialogMsgs :
                       AwaitsReason(a, code) /\ admin_reject_with_reason(a, a, m)
          /\ \A a \in ADMINS :
                AwaitsReason(a, code)
                    => /\ admin_reject_with_reason(a, a, TextMsg(TxtNick))
                             => RejectedWith(code, TxtNick)
                       /\ admin_reject_with_reason(a, a, TextMsg(TxtBlank))
                             => RejectedWith(code, ReasonPlaceholder)]_vars

\* C25 witness: a ticket was rejected with a blank reason: the placeholder is in the log
\* and was sent to the claimant
C25_Witness ==
    \E tid \in 1..Len(tickets) :
        /\ tickets[tid].status = "rejected"
        /\ messages # <<>>
        /\ messages[Len(messages)].text = Some(<<"rejected", ReasonPlaceholder>>)
        /\ out = <<Send(OwnerTg(tid), <<"rejected", tickets[tid].code, ReasonPlaceholder>>)>>

\* the operator a has a sub-dialog pending
Pending(a) == Ctx(a, a).state \in {"wait_text", "wait_reason"}

ModeOf(action) == IF action = "reject" THEN "wait_reason" ELSE "wait_text"

\* the step changes no ticket but code's, logs for no other ticket and sends about no
\* other ticket
OnlyTouches(code) ==
    LET tid == ticket_id_from_code(code)
    IN  /\ Len(tickets') = Len(tickets)
        /\ \A i \in 1..Len(tickets) : i # tid => tickets'[i] = tickets[i]
        /\ \A k \in (Len(messages) + 1)..Len(messages') : messages'[k].ticket_id = tid
        /\ \A k \in 1..Len(out') : out'[k].body[2] = code

ApprovalEntries(M, tid) ==
    SelectSeq(M, LAMBDA e : e.ticket_id = tid /\ e.sender = "admin"
                            /\ e.text = Some(<<"approved">>))

\* C28: every press of approve on an existing ticket, whatever its status (approved
\* included), leaves the status approved and appends exactly one operator log entry, so
\* n presses leave n entries.
C28_ApproveAppendsEachTime ==
    [][\A a \in ADMINS, code \in KnownCodes :
          (ticket_id_from_code(code) # 0 /\ admin_actions(a, a, code, "approve"))
              => LET tid == ticket_id_from_code(code)
                 IN  /\ StatusOf(tickets', code) = "approved"
                     /\ Len(messages') = Len(messages) + 1
                     /\ SubSeq(messages', 1, Len(messages)) = messages
                     /\ Cardinality(AdminEntries(messages', tid))
                            = Cardinality(AdminEntries(messages, tid)) + 1
                     /\ Len(ApprovalEntries(messages', tid))
                            = Len(ApprovalEntries(messages, tid)) + 1]_vars

\* C28 witness: a ticket approved twice: status approved, two approval entries
C28_Witness ==
    \E tid \in 1..Len(tickets) :
        /\ tickets[tid].status = "approved"
        /\ Len(ApprovalEntries(messages, tid)) = 2

\* every ticket keeps its status in the step
StatusesKept ==
    /\ Len(tickets') = Len(tickets)
    /\ \A i \in 1..Len(tickets) : tickets'[i].status = tickets[i].status

\* C29: the reply control, the delivery of the operator's message and the files control
\* leave the status of every ticket as it was, whatever it was: a step in which some
\* status changes is none of the three.
C29_ReplyAndFilesKeepStatus ==
    [][\A a \in ADMINS :
          ~StatusesKept
              => /\ \A code \in KnownCodes \cup {UnknownCode} :
                        /\ ~admin_actions(a, a, code, "reply")
                        /\ ~admin_actions(a, a, code, "files")
                 /\ \A ok \in BOOLEAN : ~admin_send_text(a, a, TextMsg(TxtNick), ok)]_vars

\* C29 witness: the operator's message was delivered and logged for a ticket rejected
\* before, which is still rejected
C29_Witness ==
    \E tid \in 1..Len(tickets) :
        /\ tickets[tid].status = "rejected"
        /\ Len(messages) = 2
        /\ messages[2] = [ticket_id |-> tid, sender |-> "admin", text |-> Some(TxtNick),
                          file_id |-> None]
        /\ out = <<Send(OwnerTg(tid), <<"message", tickets[tid].code, Some(TxtNick)>>)>>

\* what creation wrote of the ticket t and nothing later writes
Written(U, t) ==
    [code |-> t.code, owner |-> U[t.user_id], casino_code |-> t.casino_code,
     email |-> t.email, project_nick |-> t.project_nick, atts |-> t.atts]

\* C30: in every step every ticket already there stays, with the code, owner, casino,
\* nickname or e-mail and attachments it was created with, and every log entry already
\* there stays as it was, at its place: steps only add tickets, change statuses and
\* append log entries.
C30_WrittenOnce ==
    [][/\ Len(tickets') >= Len(tickets)
       /\ \A i \in 1..Len(tickets) : Written(users', tickets'[i]) = Written(users, tickets[i])
       /\ Len(messages') >= Len(messages)
       /\ SubSeq(messages', 1, Len(messages)) = messages]_vars

\* C30 witness: a ticket that went through a request for information, a relayed photo
\* and an approval, with its attachments
C30_Witness ==
    \E tid \in 1..Len(tickets) :
        /\ tickets[tid].status = "approved"
        /\ tickets[tid].atts # <<>>
        /\ \E k \in 1..Len(messages) :
               /\ messages[k].ticket_id = tid
               /\ messages[k].sender = "user"
               /\ IsSome(messages[k].file_id)
        /\ \E k \in 1..Len(messages) :
               messages[k].ticket_id = tid /\ messages[k].sender = "admin"

\* the log entry of the suspended relay t
TaskEntry(t) ==
    [ticket_id |-> ticket_id_from_code(Get(t.code)), sender |-> "user",
     text |-> MsgText(t.payload),
     file_id |-> IF IsMedia(t.payload) THEN t.payload.file_id ELSE None]

HasKind(O, kind) == \E k \in 1..Len(O) : O[k].body[1] = kind

\* a suspended relay at position pc whose entry is in the log
LoggedRunAt(pc) ==
    \E i \in 1..Len(tasks) :
        /\ tasks[i].pc = pc
        /\ \E k \in 1..Len(messages) : messages[k] = TaskEntry(tasks[i])

\* C31: the step that logs a relayed message sends nothing; a text header goes out only
\* for a run whose entry is already in the log, to every operator and the channel in
\* reach, with no media in the same step; media goes out only for a run that is past
\* its header fan-out, and a run gets past it only by that fan-out.
C31_LoggedThenHeaderThenMedia ==
    [][down' = down
          => /\ \A m \in {TextMsg(TxtNick), PhotoMsg("f1")} :
                   (LatestNeedsInfo("u1") # 0 /\ relay_begin("u1", "u1", m))
                       => /\ out' = <<>>
                          /\ messages' = Append(messages,
                                 [ticket_id |-> LatestNeedsInfo("u1"), sender |-> "user",
                                  text |-> MsgText(m),
                                  file_id |-> IF IsMedia(m) THEN m.file_id ELSE None])
             /\ HasKind(out', "relay")
                   => LoggedRunAt("logged") /\ ~HasKind(out', "relay_media")
             /\ HasKind(out', "relay_media")
                   => LoggedRunAt("notified") /\ ~HasKind(out', "relay")
             /\ \A i \in 1..Len(tasks) :
                   /\ relay_header(i) => \A r \in Reachable : DeliveredTo(out', r, "relay")
                   /\ relay_media(i)
                         => \A r \in Reachable : DeliveredTo(out', r, "relay_media")
             /\ \A j \in 1..Len(tasks') :
                   tasks'[j].pc = "notified"
                       => \/ \E i \in 1..Len(tasks) : tasks[i] = tasks'[j]
                          \/ \E i \in 1..Len(tasks) :
                                 tasks[i].pc = "logged" /\ relay_header(i)]_vars

\* C31 witness: the photo of a relayed message has just been re-sent to the operator
\* and the channel, its entry is in the log and its run is over
C31_Witness ==
    /\ down = {}
    /\ tasks = <<>>
    /\ Len(out) = Len(Recipients)
    /\ \A k \in 1..Len(out) : out[k] = Send(Recipients[k], <<"relay_media", "PHOTO", "f1">>)
    /\ \E k \in 1..Len(messages) :
           messages[k].sender = "user" /\ messages[k].file_id = Some("f1")

\* the items of the sends O in the order sent: <<medium, file_id, caption>>
RECURSIVE Items(_)
Items(O) ==
    IF O = <<>> THEN <<>>
    ELSE LET b == Head(O).body
         IN  (IF b[1] = "single" THEN << <<b[2], b[3], b[4]>> >> ELSE b[2]) \o Items(Tail(O))

\* the sends O deliver the attachments of the ticket t to the chat: each once, the
\* deposits then the withdrawals in their stored order, each as the medium it was
\* stored as, no send with more than ChunkSize items or with items of both
\* categories, the caption on the first deposit and on the first withdrawal only
DeliversOnce(O, t, chat) ==
    LET deps == SelectSeq(t.atts, LAMBDA x : x.kind[1] = "deposit")
        wds == SelectSeq(t.atts, LAMBDA x : x.kind[1] = "withdraw")
        want == deps \o wds
        got == Items(O)
    IN  /\ \A k \in 1..Len(O) : O[k].to = chat /\ O[k].body[1] \in {"single", "media_group"}
        /\ Len(got) = Len(t.atts)
        /\ Len(want) = Len(t.atts)
        /\ \A k \in 1..Len(got) : got[k][2] = want[k].file_id /\ got[k][1] = want[k].kind[2]
        /\ \A k \in 1..Len(O) : Len(Items(<<O[k]>>)) \in 1..ChunkSize
        /\ \E cut \in 0..Len(O) : Len(Items(SubSeq(O, 1, cut))) = Len(deps)
        /\ \A k \in 1..Len(got) :
               got[k][3] = IF k = 1 /\ deps # <<>> THEN Some(<<"deposits", Len(deps)>>)
                           ELSE IF k = Len(deps) + 1 THEN Some(<<"withdrawals", Len(wds)>>)
                           ELSE None

\* C32: what the operator is sent for a ticket with attachments, by the files control
\* or by /files, delivers every attachment once, deposits before withdrawals, at most
\* ChunkSize items to a send, the caption with the category and its count on the first
\* item of the category only; a ticket without attachments gets the one notice.
C32_AttachmentsDeliveredOnce ==
    (out # <<>> /\ ~HasKind(out, "not_found") /\ ~HasKind(out, "alert_not_found"))
        => IF tickets[1].atts = <<>>
           THEN out = <<Send("a1", <<"no_attachments", tickets[1].code>>)>>
           ELSE DeliversOnce(out, tickets[1], "a1")

\* C32 witness: 21 deposits and 11 withdrawals listed in five sends: ten, ten and one,
\* then ten and one
C32_Witness ==
    /\ Len(tickets[1].atts) = 32
    /\ Len(out) = 5
    /\ out[3].body[1] = "single" /\ out[3].body[4] = None
    /\ out[4].body[1] = "media_group" /\ out[4].body[2][1][3] = Some(<<"withdrawals", 11>>)
    /\ out[5].body[1] = "single"

\* the draft of the claimant u holds nothing: no casino, identifier or attachment
EmptyDraft(F, u) ==
    /\ F[<<u, u>>].casino_code = None
    /\ F[<<u, u>>].project_nick = None
    /\ F[<<u, u>>].dep_atts = <<>>
    /\ F[<<u, u>>].wd_atts = <<>>

\* C33: a press of the new-claim control or a /cashback command that puts the claimant
\* at the casino step leaves an empty draft: nothing collected before is carried into
\* the new claim.
C33_EntryStartsEmpty ==
    [][\A u \in Claimants :
          (fsm'[<<u, u>>].state = "casino"
              /\ (cb_new_ticket(u, u) \/ cmd_cashback(u, u, TextMsg(CmdCashback))))
                => EmptyDraft(fsm', u)]_vars

====
